---- MODULE Spec2Model ----
(***************************************************************************)
(* Model of the caching layer (lib/cache.ts), the server actions that use  *)
(* it (app/actions/rivalry-actions.ts) and the SDS+ scoring engine         *)
(* (lib/sds-plus.ts) of the party-ponies website.                          *)
(*                                                                         *)
(* Time is counted in whole hours since the server module was first        *)
(* loaded.  JavaScript numbers are modelled as exact rationals [n, d] with *)
(* d = 0 encoding the non-finite values (NaN, +Infinity, -Infinity).       *)
(***************************************************************************)
EXTENDS Integers, Sequences, FiniteSets, TLC

\* ------------------------------------------------------------------ bounds
MaxTicks == 2
MaxClockCalls == 2
MaxHistoryCalls == 2
MaxCalls == 2
MaxRaceCalls == 2
MaxH2HCalls == 2
MaxTokenCalls == 2

\* ------------------------------------------------------- JS number model
RECURSIVE GCD(_, _)
GCD(a, b) == IF b = 0 THEN a ELSE GCD(b, a % b)

NaN == [n |-> 0, d |-> 0]
PosInf == [n |-> 1, d |-> 0]
NegInf == [n |-> -1, d |-> 0]

\* the number n / d (d # 0), in lowest terms with a positive denominator
Q(n, d) ==
  LET s == IF d < 0 THEN -1 ELSE 1
      g == GCD(IF n < 0 THEN -n ELSE n, IF d < 0 THEN -d ELSE d)
  IN  [n |-> (s * n) \div g, d |-> (s * d) \div g]
I(n) == [n |-> n, d |-> 1]

IsNaN(x) == x.d = 0 /\ x.n = 0
IsFinite(x) == x.d # 0
Sgn(x) == IF x.n > 0 THEN 1 ELSE IF x.n < 0 THEN -1 ELSE 0
InfOf(s) == IF s > 0 THEN PosInf ELSE NegInf

NumNeg(x) == [n |-> -x.n, d |-> x.d]

NumAdd(x, y) ==
  IF IsNaN(x) \/ IsNaN(y) THEN NaN
  ELSE IF ~IsFinite(x) /\ ~IsFinite(y) THEN (IF x.n = y.n THEN x ELSE NaN)
  ELSE IF ~IsFinite(x) THEN x
  ELSE IF ~IsFinite(y) THEN y
  ELSE Q(x.n * (y.d \div GCD(x.d, y.d)) + y.n * (x.d \div GCD(x.d, y.d)),
         (x.d \div GCD(x.d, y.d)) * y.d)

NumSub(x, y) == NumAdd(x, NumNeg(y))

NumMul(x, y) ==
  IF IsNaN(x) \/ IsNaN(y) THEN NaN
  ELSE IF ~IsFinite(x) \/ ~IsFinite(y)
       THEN (IF Sgn(x) * Sgn(y) = 0 THEN NaN ELSE InfOf(Sgn(x) * Sgn(y)))
  ELSE [n |-> Q(x.n, y.d).n * Q(y.n, x.d).n,
        d |-> Q(x.n, y.d).d * Q(y.n, x.d).d]

\* the divisors of the modelled code are never negative zero
NumDiv(x, y) ==
  IF IsNaN(x) \/ IsNaN(y) THEN NaN
  ELSE IF ~IsFinite(x) /\ ~IsFinite(y) THEN NaN
  ELSE IF ~IsFinite(x) THEN InfOf(Sgn(x) * (IF Sgn(y) < 0 THEN -1 ELSE 1))
  ELSE IF ~IsFinite(y) THEN I(0)
  ELSE IF y.n = 0 THEN (IF x.n = 0 THEN NaN ELSE InfOf(Sgn(x)))
  ELSE NumMul(x, Q(y.d, y.n))

\* x < y, x > y, x >= y of JavaScript: false as soon as one side is NaN
NumLt(x, y) ==
  IF IsNaN(x) \/ IsNaN(y) THEN FALSE
  ELSE IF ~IsFinite(x) \/ ~IsFinite(y)
       THEN (IF ~IsFinite(x) /\ ~IsFinite(y) THEN x.n < y.n
             ELSE IF ~IsFinite(x) THEN x.n < 0 ELSE y.n > 0)
  ELSE x.n * y.d < y.n * x.d

NumGt(x, y) == NumLt(y, x)
NumEq(x, y) == ~IsNaN(x) /\ ~IsNaN(y) /\ x = y
NumGe(x, y) == NumGt(x, y) \/ NumEq(x, y)

NumMin(x, y) == IF IsNaN(x) \/ IsNaN(y) THEN NaN ELSE IF NumLt(y, x) THEN y ELSE x
NumMax(x, y) == IF IsNaN(x) \/ IsNaN(y) THEN NaN ELSE IF NumGt(y, x) THEN y ELSE x

\* Math.round: nearest integer, halves towards +Infinity
MathRound(x) ==
  IF ~IsFinite(x) THEN x ELSE I((2 * x.n + x.d) \div (2 * x.d))

\* Math.round(x * k) / k
RoundTo(x, k) == NumDiv(MathRound(NumMul(x, I(k))), I(k))

\* `v || fallback` on a number: 0 and NaN are falsy
NumOr(x, fallback) == IF IsNaN(x) \/ x = I(0) THEN fallback ELSE x

\* --------------------------------------------------------- missing values
Undefined == "undefined"
Null == "null"

\* `a || b` on a string that may be undefined, null or empty
StrOr(a, b) == IF a = Undefined \/ a = Null \/ a = "" THEN b ELSE a

\* ------------------------------------------------------------ wall clock
HoursPerYear == 8760
TickSteps == {1, 167, HoursPerYear}

\* new Date().getFullYear() at model time t; time 0 is in 2025
YearOf(t) == 2025 + (t \div HoursPerYear)

\* String(year) and parseInt(season) over the years the site knows
KnownYears == 2013 .. 2030
YearString(y) == ToString(y)
ParseInt(s) ==
  IF \E y \in KnownYears : ToString(y) = s
  THEN I(CHOOSE y \in KnownYears : ToString(y) = s)
  ELSE NaN

\* --------------------------------------------------------- league identity
\* a league key "449.l.44808" is kept as its split('.') parts
League2024 == <<"449", "l", "44808">>
League2025 == <<"461", "l", "12345">>
Leagues == {League2024, League2025}

GAME_KEY_TO_YEAR(gameKey) ==
  CASE gameKey = "314" -> "2013" [] gameKey = "331" -> "2014"
    [] gameKey = "348" -> "2015" [] gameKey = "359" -> "2016"
    [] gameKey = "371" -> "2017" [] gameKey = "380" -> "2018"
    [] gameKey = "390" -> "2019" [] gameKey = "399" -> "2020"
    [] gameKey = "406" -> "2021" [] gameKey = "414" -> "2022"
    [] gameKey = "423" -> "2023" [] gameKey = "449" -> "2024"
    [] gameKey = "461" -> "2025" [] OTHER -> Undefined

\* const season = GAME_KEY_TO_YEAR[gameKey] || new Date().getFullYear().toString()
SeasonOfLeagueKey(leagueKey, t) ==
  StrOr(GAME_KEY_TO_YEAR(leagueKey[1]), YearString(YearOf(t)))

\* ------------------------------------------------------- upstream standings
Team(key, name, owner, rank, w, l, t, pf, pa) ==
  [team_key |-> key, name |-> name, owner_name |-> owner, rank |-> rank,
   wins |-> w, losses |-> l, ties |-> t, points_for |-> pf, points_against |-> pa]

\* what fetchLeagueStandings can return for a league (sorted by rank)
Final2024 ==
  << Team("t1", "Colts", "Ann", 1, 2, 1, 0, I(5), I(3)),
     Team("t2", "Bears", "Bob", 2, 1, 2, 0, I(3), I(5)) >>
Final2024NoOwner ==
  << Team("t1", "Colts", "Ann", 1, 2, 1, 0, I(5), I(3)),
     Team("t2", "", Undefined, 2, 1, 2, 0, I(3), I(5)) >>
Preseason2025 ==
  << Team("t1", "Colts", "Ann", 0, 0, 0, 0, I(0), I(0)),
     Team("t2", "Bears", "Bob", 0, 0, 0, 0, I(0), I(0)) >>
Week1Of2025 ==
  << Team("t2", "Bears", "Bob", 1, 1, 0, 0, I(4), I(2)),
     Team("t1", "Colts", "Ann", 2, 0, 1, 0, I(2), I(4)) >>

UpstreamStandings(leagueKey) ==
  IF leagueKey = League2024 THEN {Final2024, Final2024NoOwner}
  ELSE {Preseason2025, Week1Of2025}

\* ------------------------------------------------------------------ store
\* outcome of one supabase-js call: it resolves with data, resolves with
\* { error } (nothing changed), or rejects (nothing changed)
StoreOutcomes == {"ok", "error", "throw"}

\* rows written before the owner_name migration
LegacyRows2024 ==
  << [league_key |-> League2024, season |-> "2024", week |-> Null,
      team_key |-> "t1", team_name |-> "Colts", owner_name |-> Null,
      rank |-> 1, wins |-> 2, losses |-> 1, ties |-> 0,
      points_for |-> I(5), points_against |-> I(3), created_at |-> 0] >>

RECURSIVE OrdersOf(_, _, _)
\* the ways to list the rows at the indices in S, lowest column value first
OrdersOf(rows, col, S) ==
  IF S = {} THEN {<<>>}
  ELSE UNION {{<<rows[x]>> \o rest : rest \in OrdersOf(rows, col, S \ {x})} :
                x \in {y \in S : \A z \in S : rows[y][col] <= rows[z][col]}}

\* the orders in which `select ... order by <col>` may return the rows:
\* ascending in the column, rows that tie in any order
OrderBy(rows, col) == OrdersOf(rows, col, 1 .. Len(rows))

\* ---------------------------------------------------------- cache policy
CURRENT_SEASON_WEEKLY_TTL_HOURS == 168

isCacheFresh_inclusive(cachedAt, isCurrentSeason, isCompletedWeek, t) ==
  IF ~isCurrentSeason THEN TRUE
  ELSE IF isCompletedWeek THEN TRUE
  ELSE t - cachedAt <= CURRENT_SEASON_WEEKLY_TTL_HOURS

isCacheFresh_historicalAges(cachedAt, isCurrentSeason, isCompletedWeek, t) ==
  IF isCompletedWeek THEN TRUE
  ELSE t - cachedAt < CURRENT_SEASON_WEEKLY_TTL_HOURS

\* isCacheFresh(cachedAt, isCurrentSeason, isCompletedWeek = false), with
\* the `new Date()` it reads passed as t
isCacheFresh(cachedAt, isCurrentSeason, isCompletedWeek, t) ==
  IF ~isCurrentSeason THEN TRUE
  ELSE IF isCompletedWeek THEN TRUE
  ELSE LET hoursSinceCache == t - cachedAt
       IN  hoursSinceCache < CURRENT_SEASON_WEEKLY_TTL_HOURS

RECURSIVE OldestOf(_, _)
\* data.reduce((oldest, row) => !oldest || rowDate < oldest ? rowDate : oldest, null)
OldestOf(stamps, oldest) ==
  IF stamps = <<>> THEN oldest
  ELSE OldestOf(Tail(stamps),
                IF oldest = <<>> \/ Head(stamps) < oldest[1]
                THEN <<Head(stamps)>> ELSE oldest)

CreatedAtOf(data) == [i \in 1 .. Len(data) |-> data[i].created_at]

hasMissingOwnerNames_emptyAllowed(data) ==
  \E i \in 1 .. Len(data) :
     \/ data[i].owner_name = Undefined
     \/ data[i].owner_name = Null

\* data.some(row => row.owner_name === undefined || ... === null || ... === '')
hasMissingOwnerNames(data) ==
  \E i \in 1 .. Len(data) :
     \/ data[i].owner_name = Undefined
     \/ data[i].owner_name = Null
     \/ data[i].owner_name = ""

\* DECIMAL(10, 2) column read back with parseFloat
Decimal2(x) == RoundTo(x, 100)

StandingOfRow_ownerAsName(row) ==
  [team_key |-> row.team_key, name |-> StrOr(row.owner_name, row.team_name),
   owner_name |-> StrOr(row.owner_name, row.team_name), rank |-> row.rank,
   wins |-> row.wins, losses |-> row.losses, ties |-> row.ties,
   points_for |-> row.points_for, points_against |-> row.points_against]

\* data.map(row => ({ team_key: row.team_key, name: row.team_name, ... }))
StandingOfRow(row) ==
  [team_key |-> row.team_key, name |-> row.team_name,
   owner_name |-> StrOr(row.owner_name, row.team_name), rank |-> row.rank,
   wins |-> row.wins, losses |-> row.losses, ties |-> row.ties,
   points_for |-> row.points_for, points_against |-> row.points_against]

getCachedStandings_errorIgnored(outcome, data, season, currentSeasonYear, t) ==
  LET isCurrentSeason == ParseInt(season) = I(currentSeasonYear)
      oldestCache == OldestOf(CreatedAtOf(data), <<>>)
  IN  IF Len(data) = 0 THEN <<>>
      ELSE IF oldestCache # <<>>
              /\ ~isCacheFresh(oldestCache[1], isCurrentSeason, FALSE, t)
           THEN <<>>
      ELSE IF hasMissingOwnerNames(data) THEN <<>>
      ELSE [i \in 1 .. Len(data) |-> StandingOfRow(data[i])]

\* the part of getCachedStandings after the select: outcome and data are
\* what the select gave, <<>> stands for the null it returns on a miss
getCachedStandings(outcome, data, season, currentSeasonYear, t) ==
  LET isCurrentSeason == ParseInt(season) = I(currentSeasonYear)
      oldestCache == OldestOf(CreatedAtOf(data), <<>>)
  IN  IF outcome # "ok" \/ Len(data) = 0 THEN <<>>
      ELSE IF oldestCache # <<>>
              /\ ~isCacheFresh(oldestCache[1], isCurrentSeason, FALSE, t)
           THEN <<>>
      ELSE IF hasMissingOwnerNames(data) THEN <<>>
      ELSE [i \in 1 .. Len(data) |-> StandingOfRow(data[i])]

\* the rows cacheStandings inserts (created_at defaults to NOW())
StandingsRows(leagueKey, season, standings, t) ==
  [i \in 1 .. Len(standings) |->
     [league_key |-> leagueKey, season |-> season, week |-> Null,
      team_key |-> standings[i].team_key, team_name |-> standings[i].name,
      owner_name |-> StrOr(standings[i].owner_name, standings[i].name),
      rank |-> standings[i].rank, wins |-> standings[i].wins,
      losses |-> standings[i].losses, ties |-> standings[i].ties,
      points_for |-> Decimal2(standings[i].points_for),
      points_against |-> Decimal2(standings[i].points_against),
      created_at |-> t]]

\* .eq('league_key', leagueKey).eq('season', season).is('week', null)
StandingsMatch(row, leagueKey, season) ==
  row.league_key = leagueKey /\ row.season = season /\ row.week = Null

RowsOfKey(table, leagueKey, season) ==
  SelectSeq(table, LAMBDA r : StandingsMatch(r, leagueKey, season))

RowsNotOfKey(table, leagueKey, season) ==
  SelectSeq(table, LAMBDA r : ~StandingsMatch(r, leagueKey, season))

\* ----------------------------------------------------- JS array helpers
RECURSIVE SumNum(_)
\* xs.reduce((a, b) => a + b, 0)
SumNum(xs) == IF xs = <<>> THEN I(0) ELSE NumAdd(Head(xs), SumNum(Tail(xs)))

RECURSIVE MaxNum(_)
\* Math.max(...xs): -Infinity for no argument, NaN as soon as one is NaN
MaxNum(xs) ==
  IF xs = <<>> THEN NegInf
  ELSE LET m == MaxNum(Tail(xs))
       IN  IF IsNaN(Head(xs)) \/ IsNaN(m) THEN NaN
           ELSE IF NumGt(Head(xs), m) THEN Head(xs) ELSE m

RECURSIVE ISqrt(_, _)
\* largest r with r * r <= n, searched upwards from r
ISqrt(n, r) == IF (r + 1) * (r + 1) > n THEN r ELSE ISqrt(n, r + 1)

SqrtScale == 100

\* Math.sqrt: exact on squares of rationals, else cut to 1 / SqrtScale
MathSqrt(x) ==
  IF IsNaN(x) \/ Sgn(x) < 0 THEN NaN
  ELSE IF ~IsFinite(x) THEN x
  ELSE LET rn == ISqrt(x.n, 0)
           rd == ISqrt(x.d, 0)
       IN  IF rn * rn = x.n /\ rd * rd = x.d THEN Q(rn, rd)
           ELSE Q(ISqrt((x.n * SqrtScale * SqrtScale) \div x.d, 0), SqrtScale)

\* the comparefns calculateSDSPlus sorts with
ByPointsFor(a, b) == NumSub(b.points_for, a.points_for)
ByRegularSeason(a, b) ==
  IF b.wins # a.wins THEN I(b.wins - a.wins)
  ELSE NumSub(b.points_for, a.points_for)
ByScore(a, b) == NumSub(b.score, a.score)

\* the order value the engine's sort sees: comparefn's result, NaN read as 0
CallCompare(comparefn, a, b) ==
  LET v == CASE comparefn = "ByPointsFor" -> ByPointsFor(a, b)
             [] comparefn = "ByRegularSeason" -> ByRegularSeason(a, b)
             [] comparefn = "ByScore" -> ByScore(a, b)
  IN  IF IsNaN(v) THEN 0 ELSE Sgn(v)

\* an array built element by element, held as a sequence value
ArrayOf(f) == f \o <<>>

Reverse(xs) == ArrayOf([i \in 1 .. Len(xs) |-> xs[Len(xs) + 1 - i]])

RECURSIVE RunLength(_, _, _, _)
\* length of the ascending (or strictly descending) run that starts the array
RunLength(xs, comparefn, idx, isDescending) ==
  IF idx > Len(xs) THEN idx - 1
  ELSE LET order == CallCompare(comparefn, xs[idx], xs[idx - 1])
       IN  IF (isDescending /\ order >= 0) \/ (~isDescending /\ order < 0)
           THEN idx - 1
           ELSE RunLength(xs, comparefn, idx + 1, isDescending)

RECURSIVE BinarySearch(_, _, _, _, _)
BinarySearch(xs, comparefn, pivot, left, right) ==
  IF left >= right THEN left
  ELSE LET mid == left + ((right - left) \div 2)
       IN  IF CallCompare(comparefn, pivot, xs[mid]) < 0
           THEN BinarySearch(xs, comparefn, pivot, left, mid)
           ELSE BinarySearch(xs, comparefn, pivot, mid + 1, right)

RECURSIVE BinaryInsertionSort(_, _, _)
\* xs[1 .. start - 1] is sorted; insert xs[start], xs[start + 1], ...
BinaryInsertionSort(xs, comparefn, start) ==
  IF start > Len(xs) THEN xs
  ELSE LET pivot == xs[start]
           at == BinarySearch(xs, comparefn, pivot, 1, start)
           moved == ArrayOf([i \in 1 .. Len(xs) |->
                       IF i < at \/ i > start THEN xs[i]
                       ELSE IF i = at THEN pivot ELSE xs[i - 1]])
       IN  BinaryInsertionSort(moved, comparefn, start + 1)

\* Array.prototype.sort(comparefn) as the engine runs it on a short array:
\* the leading run is found (and reversed when descending), the rest is
\* inserted by binary search
ArraySort(xs, comparefn) ==
  IF Len(xs) < 2 THEN xs
  ELSE LET isDescending == CallCompare(comparefn, xs[2], xs[1]) < 0
           run == RunLength(xs, comparefn, 3, isDescending)
           made == IF isDescending
                   THEN Reverse(SubSeq(xs, 1, run)) \o SubSeq(xs, run + 1, Len(xs))
                   ELSE xs
       IN  BinaryInsertionSort(made, comparefn, run + 1)

\* xs.findIndex(t => t.team_key === key) + 1
FindIndex1(xs, key) ==
  IF \E i \in 1 .. Len(xs) : xs[i].team_key = key
  THEN CHOOSE i \in 1 .. Len(xs) :
         xs[i].team_key = key /\ \A j \in 1 .. (i - 1) : xs[j].team_key # key
  ELSE 0

\* ------------------------------------------------------------ SDS+ engine
WeeklyScore(key, week, points, opp) ==
  [team_key |-> key, week |-> week, points |-> points, opponent_key |-> opp]

PointsOfTeam(teamKey, weeklyScores) ==
  LET mine == SelectSeq(weeklyScores, LAMBDA ws : ws.team_key = teamKey)
  IN  [i \in 1 .. Len(mine) |-> mine[i].points]

\* scoresByWeek.get(week).get(teamKey): the last record written wins
HasWeekScore(weeklyScores, week, teamKey) ==
  \E i \in 1 .. Len(weeklyScores) :
     weeklyScores[i].week = week /\ weeklyScores[i].team_key = teamKey

WeekScore(weeklyScores, week, teamKey) ==
  LET last == CHOOSE i \in 1 .. Len(weeklyScores) :
                /\ weeklyScores[i].week = week /\ weeklyScores[i].team_key = teamKey
                /\ \A j \in (i + 1) .. Len(weeklyScores) :
                     ~(weeklyScores[j].week = week /\ weeklyScores[j].team_key = teamKey)
  IN  weeklyScores[last].points

calculateAllPlayWinPercentage(teamKey, weeklyScores, allTeamKeys) ==
  LET teamWeeks == SelectSeq(weeklyScores, LAMBDA ws : ws.team_key = teamKey)
      opponentScore(week, opponentKey) ==
        IF HasWeekScore(weeklyScores, week, opponentKey)
        THEN NumOr(WeekScore(weeklyScores, week, opponentKey), I(0))
        ELSE I(0)
      pairs == {<<i, j>> \in (1 .. Len(teamWeeks)) \X (1 .. Len(allTeamKeys)) :
                  allTeamKeys[j] # teamKey}
      totalWins == Cardinality({p \in pairs :
                     NumGt(teamWeeks[p[1]].points,
                           opponentScore(teamWeeks[p[1]].week, allTeamKeys[p[2]]))})
      totalMatchups == Cardinality(pairs)
  IN  IF Len(teamWeeks) = 0 THEN Q(1, 2)
      ELSE IF totalMatchups > 0 THEN Q(totalWins, totalMatchups) ELSE Q(1, 2)

calculateTeamStdDev(teamKey, weeklyScores) ==
  LET teamScores == PointsOfTeam(teamKey, weeklyScores)
      len == I(Len(teamScores))
      mean == NumDiv(SumNum(teamScores), len)
      squares == [i \in 1 .. Len(teamScores) |->
                    NumMul(NumSub(teamScores[i], mean), NumSub(teamScores[i], mean))]
      variance == NumDiv(SumNum(squares), len)
  IN  IF Len(teamScores) = 0 THEN I(0) ELSE MathSqrt(variance)

\* allPlayWinPcts is a Map: here a function on the keys it holds
MapValues(keys, map) ==
  LET present == SelectSeq(keys, LAMBDA k : k \in DOMAIN map)
      firsts == {i \in 1 .. Len(present) :
                   \A j \in 1 .. (i - 1) : present[j] # present[i]}
      RECURSIVE Collect(_)
      Collect(i) == IF i > Len(present) THEN <<>>
                    ELSE (IF i \in firsts THEN <<map[present[i]]>> ELSE <<>>)
                           \o Collect(i + 1)
  IN  Collect(1)

Average(xs, fallback) ==
  IF Len(xs) > 0 THEN NumDiv(SumNum(xs), I(Len(xs))) ELSE fallback

calculateOpponentAPW_everyMeeting(teamKey, weeklyScores, allTeamKeys, allPlayWinPcts) ==
  LET teamWeeklyScores ==
        SelectSeq(weeklyScores,
                  LAMBDA ws : ws.team_key = teamKey
                              /\ StrOr(ws.opponent_key, "") # "")
      met == SelectSeq(teamWeeklyScores,
                       LAMBDA ws : ws.opponent_key \in DOMAIN allPlayWinPcts)
      opponentAPWs == [i \in 1 .. Len(met) |-> allPlayWinPcts[met[i].opponent_key]]
      allAPWs == MapValues(allTeamKeys, allPlayWinPcts)
  IN  IF Len(teamWeeklyScores) = 0 THEN Average(allAPWs, Q(1, 2))
      ELSE IF Len(opponentAPWs) > 0 THEN Average(opponentAPWs, Q(1, 2))
      ELSE Average(allAPWs, Q(1, 2))

calculateOpponentAPW(teamKey, weeklyScores, allTeamKeys, allPlayWinPcts) ==
  LET teamWeeklyScores ==
        SelectSeq(weeklyScores,
                  LAMBDA ws : ws.team_key = teamKey
                              /\ StrOr(ws.opponent_key, "") # "")
      opponentKeys == [i \in 1 .. Len(teamWeeklyScores) |->
                         teamWeeklyScores[i].opponent_key]
      opponentAPWs == MapValues(opponentKeys, allPlayWinPcts)
      allAPWs == MapValues(allTeamKeys, allPlayWinPcts)
  IN  IF Len(teamWeeklyScores) = 0 THEN Average(allAPWs, Q(1, 2))
      ELSE IF Len(opponentAPWs) > 0 THEN Average(opponentAPWs, Q(1, 2))
      ELSE Average(allAPWs, Q(1, 2))

calculateExpectedPlayoffWins(regularSeasonRank, allPlayWinPct) ==
  IF regularSeasonRank <= 2 THEN NumAdd(Q(3, 2), NumMul(allPlayWinPct, Q(1, 2)))
  ELSE IF regularSeasonRank <= 4 THEN NumAdd(I(1), NumMul(allPlayWinPct, Q(1, 2)))
  ELSE NumAdd(Q(1, 2), NumMul(allPlayWinPct, Q(1, 2)))

calculateActualPlayoffWins(finalRank) ==
  IF finalRank = 1 THEN 2 ELSE IF finalRank = 2 THEN 1
  ELSE IF finalRank = 3 THEN 1 ELSE 0

Interpretation_lowToHigh(sdsPlus) ==
  IF NumGe(sdsPlus, I(65)) THEN "Solid title or strong season"
  ELSE IF NumGe(sdsPlus, I(75)) THEN "Elite champion or contender"
  ELSE IF NumGe(sdsPlus, I(85)) THEN "Dominant, likely robbed by variance"
  ELSE IF NumGe(sdsPlus, I(95)) THEN "All-time, era-defining season"
  ELSE "Average or luck-driven outcome"

Interpretation(sdsPlus) ==
  IF NumGe(sdsPlus, I(95)) THEN "All-time, era-defining season"
  ELSE IF NumGe(sdsPlus, I(85)) THEN "Dominant, likely robbed by variance"
  ELSE IF NumGe(sdsPlus, I(75)) THEN "Elite champion or contender"
  ELSE IF NumGe(sdsPlus, I(65)) THEN "Solid title or strong season"
  ELSE "Average or luck-driven outcome"

\* the allPlayWinPcts map calculateSDSPlus builds before scoring the teams
AllPlayWinPcts(standings, weeklyScores) ==
  LET allTeamKeys == [i \in 1 .. Len(standings) |-> standings[i].team_key]
      keySet == {allTeamKeys[i] : i \in 1 .. Len(allTeamKeys)}
      estimate(teamKey) ==
        LET team == standings[FindIndex1(standings, teamKey)]
            gamesPlayed == team.wins + team.losses + team.ties
            winPct == IF gamesPlayed > 0 THEN Q(team.wins, gamesPlayed) ELSE Q(1, 2)
        IN  NumMin(Q(95, 100), NumMul(winPct, Q(11, 10)))
  IN  [k \in keySet |->
         IF Len(weeklyScores) > 0
         THEN calculateAllPlayWinPercentage(k, weeklyScores, allTeamKeys)
         ELSE estimate(k)]

\* the league average of the positive per-team standard deviations
LeagueAvgStdDev(standings, weeklyScores) ==
  LET devs == [i \in 1 .. Len(standings) |->
                 calculateTeamStdDev(standings[i].team_key, weeklyScores)]
      teamStdDevs == SelectSeq(devs, LAMBDA x : NumGt(x, I(0)))
  IN  IF Len(weeklyScores) > 0 THEN Average(teamStdDevs, I(0)) ELSE I(0)

\* PFI_era = 0.5 * PFI + 0.5 * PF_pct
EraAdjustedPoints(team, N, leagueAvgPoints, sortedByPoints) ==
  LET PFI == NumDiv(team.points_for, leagueAvgPoints)
      pointsRank == FindIndex1(sortedByPoints, team.team_key)
      PF_pct == NumSub(I(1), NumDiv(I(pointsRank - 1), I(N - 1)))
  IN  NumAdd(NumMul(Q(1, 2), PFI), NumMul(Q(1, 2), PF_pct))

\* RSS = 1 - (regularSeasonRank - 1) / (N - 1)
RegularSeasonScore(regularSeasonRank, N) ==
  NumSub(I(1), NumDiv(I(regularSeasonRank - 1), I(N - 1)))

\* WCR = weeklyHigh / leagueAvgWeeklyScore, 1.0 when that average is not > 0
WeeklyCeilingRate(team, weeklyScores, league) ==
  LET gamesPlayed == team.wins + team.losses + team.ties
      teamWeeklyScores == PointsOfTeam(team.team_key, weeklyScores)
      weeklyHigh == IF Len(teamWeeklyScores) > 0 THEN MaxNum(teamWeeklyScores)
                    ELSE NumMul(NumDiv(team.points_for, I(gamesPlayed)), Q(3, 2))
      allPoints == [i \in 1 .. Len(weeklyScores) |-> weeklyScores[i].points]
      leagueAvgWeeklyScore ==
        IF Len(weeklyScores) > 0 /\ Len(league.allTeamKeys) > 0
        THEN NumDiv(SumNum(allPoints), I(Len(weeklyScores)))
        ELSE NumDiv(league.leagueAvgPoints, league.regularSeasonWeeks)
  IN  IF NumGt(leagueAvgWeeklyScore, I(0))
      THEN NumDiv(weeklyHigh, leagueAvgWeeklyScore) ELSE I(1)

\* SoS = 1 + (APW_opp - 0.50)
StrengthOfSchedule(team, weeklyScores, allTeamKeys, allPlayWinPcts) ==
  LET APW_opp == calculateOpponentAPW(team.team_key, weeklyScores, allTeamKeys,
                                      allPlayWinPcts)
  IN  NumAdd(I(1), NumSub(APW_opp, Q(1, 2)))

ConsistencyIndex_unguarded(team, weeklyScores, leagueAvgStdDev) ==
  NumMax(I(-1), NumMin(I(1),
    NumSub(I(1), NumDiv(calculateTeamStdDev(team.team_key, weeklyScores),
                        leagueAvgStdDev))))

\* CI = 1 - teamStdDev / leagueAvgStdDev clamped to [-1, 1], 0 without data
ConsistencyIndex(team, weeklyScores, leagueAvgStdDev) ==
  LET teamStdDev == calculateTeamStdDev(team.team_key, weeklyScores)
  IN  IF Len(weeklyScores) > 0 /\ NumGt(leagueAvgStdDev, I(0))
         /\ NumGt(teamStdDev, I(0))
      THEN NumMax(I(-1), NumMin(I(1),
             NumSub(I(1), NumDiv(teamStdDev, leagueAvgStdDev))))
      ELSE I(0)

PostseasonBonus(finalRank) ==
  IF finalRank = 1 THEN I(1) ELSE IF finalRank = 2 THEN Q(70, 100)
  ELSE IF finalRank = 3 THEN Q(45, 100) ELSE I(0)

\* the final SDS+ calculation and the record returned for the team
ScoreRecord(team, PFI_era, APW, RSS, WCR, SoS, CI, PSB_adj, LD) ==
  LET weighted == NumAdd(NumAdd(NumMul(Q(30, 100), PFI_era), NumMul(Q(25, 100), APW)),
                         NumAdd(NumMul(Q(15, 100), RSS), NumMul(Q(10, 100), WCR)))
      baseScore == NumAdd(NumMul(weighted, SoS), NumMul(Q(20, 100), PSB_adj))
      championMultiplier == IF team.rank = 1 THEN Q(115, 100) ELSE I(1)
      sdsPlus == NumMul(NumMul(NumMul(I(100), baseScore),
                               NumAdd(I(1), NumMul(Q(5, 100), CI))),
                        championMultiplier)
  IN  [owner |-> StrOr(team.owner_name, team.name),
       team_key |-> team.team_key,
       score |-> RoundTo(sdsPlus, 10),
       breakdown |->
         [pfIndexEra |-> RoundTo(PFI_era, 100),
          allPlayWinPct |-> RoundTo(APW, 1000),
          regularSeasonScore |-> RoundTo(RSS, 100),
          weeklyCeilingRate |-> RoundTo(WCR, 100),
          strengthOfSchedule |-> RoundTo(SoS, 100),
          consistencyIndex |-> RoundTo(CI, 100),
          postseasonBonus |-> RoundTo(PSB_adj, 100),
          playoffLuckDiff |-> RoundTo(LD, 100)],
       rank |-> 0,
       finalRank |-> team.rank,
       interpretation |-> Interpretation(sdsPlus)]

\* the body of standings.map(team => ...): the record built for one team;
\* league holds the values calculateSDSPlus has computed before the map
ScoreOfTeam(team, weeklyScores, regularSeasonWeeks, league) ==
  LET finalRank == team.rank
      regularSeasonRank == FindIndex1(league.sortedByRegularSeason, team.team_key)
      APW == NumOr(league.allPlayWinPcts[team.team_key], Q(1, 2))
      EPW == calculateExpectedPlayoffWins(regularSeasonRank, APW)
      APW_act == calculateActualPlayoffWins(finalRank)
      LD == NumSub(EPW, I(APW_act))
      PSB_adj == NumAdd(PostseasonBonus(finalRank), NumMul(Q(5, 100), LD))
  IN  ScoreRecord(team,
                  EraAdjustedPoints(team, league.N, league.leagueAvgPoints,
                                    league.sortedByPoints),
                  APW,
                  RegularSeasonScore(regularSeasonRank, league.N),
                  WeeklyCeilingRate(team, weeklyScores, league),
                  StrengthOfSchedule(team, weeklyScores, league.allTeamKeys,
                                     league.allPlayWinPcts),
                  ConsistencyIndex(team, weeklyScores, league.leagueAvgStdDev),
                  PSB_adj,
                  LD)

\* .map((score, index) => ({ ...score, rank: index + 1 }))
AssignRanks(sorted) ==
  ArrayOf([i \in 1 .. Len(sorted) |-> [sorted[i] EXCEPT !.rank = i]])

\* what calculateSDSPlus computes once for the league, before the map
LeagueValues(standings, weeklyScores, regularSeasonWeeks) ==
  [N |-> Len(standings),
   leagueAvgPoints |->
     NumDiv(SumNum([i \in 1 .. Len(standings) |-> standings[i].points_for]),
            I(Len(standings))),
   sortedByPoints |-> ArraySort(standings, "ByPointsFor"),
   allTeamKeys |-> [i \in 1 .. Len(standings) |-> standings[i].team_key],
   allPlayWinPcts |-> AllPlayWinPcts(standings, weeklyScores),
   leagueAvgStdDev |-> LeagueAvgStdDev(standings, weeklyScores),
   sortedByRegularSeason |-> ArraySort(standings, "ByRegularSeason"),
   regularSeasonWeeks |-> regularSeasonWeeks]

ScoresOfTeams_placeholder(standings, weeklyScores, regularSeasonWeeks, league) ==
  IF standings = <<>>
  THEN <<[owner |-> "", team_key |-> "", score |-> I(0), rank |-> 0]>>
  ELSE ArrayOf([i \in 1 .. Len(standings) |->
                  ScoreOfTeam(standings[i], weeklyScores, regularSeasonWeeks, league)])

\* standings.map(team => ...)
ScoresOfTeams(standings, weeklyScores, regularSeasonWeeks, league) ==
  ArrayOf([i \in 1 .. Len(standings) |->
             ScoreOfTeam(standings[i], weeklyScores, regularSeasonWeeks, league)])

calculateSDSPlus(standings, weeklyScores, regularSeasonWeeks) ==
  AssignRanks(ArraySort(
    ScoresOfTeams(standings, weeklyScores, regularSeasonWeeks,
                  LeagueValues(standings, weeklyScores, regularSeasonWeeks)),
    "ByScore"))

\* ------------------------------------------------- SDS+ cache (cache.ts)
\* a score record with the standings columns merged in
WithStats(score, w, l, t, pf, pa) ==
  [owner |-> score.owner, team_key |-> score.team_key, score |-> score.score,
   breakdown |-> score.breakdown, rank |-> score.rank,
   finalRank |-> score.finalRank, interpretation |-> score.interpretation,
   wins |-> w, losses |-> l, ties |-> t, points_for |-> pf, points_against |-> pa]

\* scores.map(score => { const standing = data.find(...); ... })
MergeStandings(scores, standings) ==
  [i \in 1 .. Len(scores) |->
     LET at == FindIndex1(standings, scores[i].team_key)
     IN  IF at = 0 THEN scores[i]
         ELSE WithStats(scores[i], standings[at].wins, standings[at].losses,
                        standings[at].ties, standings[at].points_for,
                        standings[at].points_against)]

ScoreOfRow(row) ==
  [owner |-> row.owner_name, team_key |-> row.team_key,
   score |-> row.sds_plus_score, rank |-> row.sds_plus_rank,
   finalRank |-> row.final_rank,
   breakdown |->
     [pfIndexEra |-> I(0), allPlayWinPct |-> I(0), regularSeasonScore |-> I(0),
      weeklyCeilingRate |-> I(0), strengthOfSchedule |-> I(0),
      consistencyIndex |-> I(0), postseasonBonus |-> I(0),
      playoffLuckDiff |-> I(0)],
   interpretation |-> "", wins |-> row.wins, losses |-> row.losses,
   ties |-> row.ties, points_for |-> NumOr(row.points_for, I(0)),
   points_against |-> NumOr(row.points_against, I(0))]

\* the part of getCachedSDSPlus after the select; <<>> stands for null
getCachedSDSPlus(outcome, data, season, currentSeasonYear, t) ==
  LET isCurrentSeason == ParseInt(season) = I(currentSeasonYear)
      oldestCache == OldestOf([i \in 1 .. Len(data) |-> data[i].cached_at], <<>>)
  IN  IF outcome # "ok" \/ Len(data) = 0 THEN <<>>
      ELSE IF oldestCache # <<>>
              /\ ~isCacheFresh(oldestCache[1], isCurrentSeason, FALSE, t)
           THEN <<>>
      ELSE [i \in 1 .. Len(data) |-> ScoreOfRow(data[i])]

\* the rows cacheSDSPlus inserts (cached_at defaults to NOW())
SDSRows(leagueKey, season, scores, t) ==
  [i \in 1 .. Len(scores) |->
     [league_key |-> leagueKey, season |-> season,
      owner_name |-> scores[i].owner, team_key |-> scores[i].team_key,
      sds_plus_score |-> Decimal2(scores[i].score),
      sds_plus_rank |-> scores[i].rank, final_rank |-> scores[i].finalRank,
      wins |-> scores[i].wins, losses |-> scores[i].losses,
      ties |-> scores[i].ties,
      points_for |-> Decimal2(scores[i].points_for),
      points_against |-> Decimal2(scores[i].points_against),
      cached_at |-> t]]

\* .eq('league_key', leagueKey).eq('season', season)
SDSMatch(row, leagueKey, season) ==
  row.league_key = leagueKey /\ row.season = season

SDSRowsOfKey(table, leagueKey, season) ==
  SelectSeq(table, LAMBDA r : SDSMatch(r, leagueKey, season))

SDSRowsNotOfKey(table, leagueKey, season) ==
  SelectSeq(table, LAMBDA r : ~SDSMatch(r, leagueKey, season))

\* schema.sql, sds_plus_cache: UNIQUE(league_key, season, owner_name) and
\* sds_plus_score NOT NULL (JSON carries NaN and Infinity as null); one
\* offending row makes the store reject the whole insert
SDSInsertRejected(table, rows) ==
  \/ \E i \in 1 .. Len(rows) : ~IsFinite(rows[i].sds_plus_score)
  \/ \E i \in 1 .. Len(rows) : \E j \in 1 .. Len(table) :
        /\ rows[i].league_key = table[j].league_key
        /\ rows[i].season = table[j].season
        /\ rows[i].owner_name = table[j].owner_name
  \/ \E i, j \in 1 .. Len(rows) : i # j /\ rows[i].owner_name = rows[j].owner_name

\* getSDSPlusScores: leagues.find(...)?.season || String(year), or the
\* game-key table when getAllLeaguesWithMetadata throws
SeasonForSDS(leagueKey, lookup, t) ==
  IF lookup = "missing" THEN YearString(YearOf(t))
  ELSE SeasonOfLeagueKey(leagueKey, t)

\* what getAllWeeklyScores can deliver for a league
UpstreamWeeklyScores(leagueKey) ==
  IF leagueKey = League2024
  THEN {<<>>,
        << WeeklyScore("t1", 1, I(4), "t2"), WeeklyScore("t2", 1, I(2), "t1"),
           WeeklyScore("t1", 2, I(2), "t2"), WeeklyScore("t2", 2, I(2), "t1") >>}
  ELSE {<<>>}

\* Math.min(weeklyScores.length > 0 ? Math.max(...weeks) : 14, 14)
RegularSeasonWeeks(weeklyScores) ==
  LET weeks == [i \in 1 .. Len(weeklyScores) |-> I(weeklyScores[i].week)]
      maxWeek == IF Len(weeklyScores) > 0 THEN MaxNum(weeks) ELSE I(14)
  IN  NumMin(maxWeek, I(14))

\* the standings as getCachedStandings gives them back after cacheStandings
\* stored them
ReadBack(standings) ==
  [i \in 1 .. Len(standings) |->
     StandingOfRow(StandingsRows(<<>>, "", standings, 0)[i])]

\* calculateSDSPlus is pure: its value on the standings and weekly scores
\* getSDSPlusScores can hold is worked out once and looked up afterwards
KnownScores ==
  {<<st, ws, calculateSDSPlus(st, ws, RegularSeasonWeeks(ws))>> :
     st \in UNION {UpstreamStandings(k) \cup {ReadBack(u) : u \in UpstreamStandings(k)} :
                     k \in Leagues},
     ws \in UNION {UpstreamWeeklyScores(k) : k \in Leagues}}

\* calculateSDSPlus(standings, weeklyScores, regularSeasonWeeks) as
\* getSDSPlusScores calls it
ScoresFor(standings, weeklyScores) ==
  IF \E e \in KnownScores : e[1] = standings /\ e[2] = weeklyScores
  THEN (CHOOSE e \in KnownScores : e[1] = standings /\ e[2] = weeklyScores)[3]
  ELSE calculateSDSPlus(standings, weeklyScores, RegularSeasonWeeks(weeklyScores))

UsesSDSCache_always(skipWeeklyScores) == TRUE

\* getSDSPlusScores consults and fills the SDS+ cache only when asked to
\* skip the weekly scores
UsesSDSCache(skipWeeklyScores) == skipWeeklyScores

\* ------------------------------------------------ matchup cache (cache.ts)
Weeks == {1}

\* String.prototype.toLowerCase on the status strings the model uses
toLowerCase(str) ==
  CASE str = "POSTEVENT" -> "postevent"
    [] str = "Final" -> "final"
    [] str = "Completed" -> "completed"
    [] OTHER -> str

hasCompletedStatus_caseSensitive(data) ==
  \E i \in 1 .. Len(data) :
     LET status == data[i].status
     IN  \/ status = "postevent"
         \/ status = "completed"
         \/ status = "finished"
         \/ status = "final"

\* data.some(row => { const status = row.status?.toLowerCase(); ... })
hasCompletedStatus(data) ==
  \E i \in 1 .. Len(data) :
     LET status == IF data[i].status = Null \/ data[i].status = Undefined
                   THEN Undefined ELSE toLowerCase(data[i].status)
     IN  \/ status = "postevent"
         \/ status = "completed"
         \/ status = "finished"
         \/ status = "final"

MatchupTeam(key, name, owner, points) ==
  [key |-> key, name |-> name, owner_name |-> owner, points |-> points]

MatchupOfRow(row) ==
  [matchup_key |-> row.matchup_key, week |-> row.week,
   team1 |-> MatchupTeam(row.team1_key, row.team1_name,
                         StrOr(row.team1_owner_name, Undefined), row.team1_points),
   team2 |-> MatchupTeam(row.team2_key, row.team2_name,
                         StrOr(row.team2_owner_name, Undefined), row.team2_points),
   status |-> row.status]

getCachedMatchups_weekIgnored(outcome, data, season, currentSeasonYear, t) ==
  LET isCurrentSeason == ParseInt(season) = I(currentSeasonYear)
      oldestCache == OldestOf(CreatedAtOf(data), <<>>)
  IN  IF outcome # "ok" \/ Len(data) = 0 THEN <<>>
      ELSE IF oldestCache # <<>>
              /\ ~isCacheFresh(oldestCache[1], isCurrentSeason, FALSE, t)
           THEN <<>>
      ELSE [i \in 1 .. Len(data) |-> MatchupOfRow(data[i])]

\* the part of getCachedMatchups after the select; <<>> stands for null
getCachedMatchups(outcome, data, season, currentSeasonYear, t) ==
  LET isCurrentSeason == ParseInt(season) = I(currentSeasonYear)
      oldestCache == OldestOf(CreatedAtOf(data), <<>>)
      isHistoricalSeason == ~isCurrentSeason
      isCompletedWeek == isHistoricalSeason \/ hasCompletedStatus(data)
  IN  IF outcome # "ok" \/ Len(data) = 0 THEN <<>>
      ELSE IF oldestCache # <<>>
              /\ ~isCacheFresh(oldestCache[1], isCurrentSeason, isCompletedWeek, t)
           THEN <<>>
      ELSE [i \in 1 .. Len(data) |-> MatchupOfRow(data[i])]

\* a matchup without a team
NoTeam == MatchupTeam(Undefined, Undefined, Undefined, NaN)

\* the rows cacheMatchups inserts (created_at defaults to NOW()); KeyPair
\* is `${team1.key}-${team2.key}` over the team keys of the model
MatchupRows(leagueKey, season, week, ms, t) ==
  LET kept == SelectSeq(ms, LAMBDA m : m.team1 # NoTeam /\ m.team2 # NoTeam)
      KeyPair(a, b) ==
        CASE a = "t1" /\ b = "t2" -> "t1-t2"
          [] a = "t2" /\ b = "t1" -> "t2-t1"
          [] OTHER -> "-"
  IN  [i \in 1 .. Len(kept) |->
         [league_key |-> leagueKey, season |-> season, week |-> week,
          matchup_key |-> StrOr(kept[i].matchup_key,
                                KeyPair(kept[i].team1.key, kept[i].team2.key)),
          team1_key |-> kept[i].team1.key, team1_name |-> kept[i].team1.name,
          team1_owner_name |-> StrOr(kept[i].team1.owner_name, Null),
          team1_points |-> Decimal2(kept[i].team1.points),
          team2_key |-> kept[i].team2.key, team2_name |-> kept[i].team2.name,
          team2_owner_name |-> StrOr(kept[i].team2.owner_name, Null),
          team2_points |-> Decimal2(kept[i].team2.points),
          status |-> StrOr(kept[i].status, "completed"),
          created_at |-> t]]

\* .eq('league_key', leagueKey).eq('season', season).eq('week', week)
MatchupMatch(row, leagueKey, season, week) ==
  row.league_key = leagueKey /\ row.season = season /\ row.week = week

\* the select has no order by: its rows share the week, and listed by week
\* they come back in any order
MatchupRowsOfKey(table, leagueKey, season, week) ==
  SelectSeq(table, LAMBDA r : MatchupMatch(r, leagueKey, season, week))

MatchupRowsNotOfKey(table, leagueKey, season, week) ==
  SelectSeq(table, LAMBDA r : ~MatchupMatch(r, leagueKey, season, week))

\* schema.sql, matchups: UNIQUE(league_key, season, week, matchup_key)
MatchupInsertRejected(table, rows) ==
  \/ \E i \in 1 .. Len(rows) : \E j \in 1 .. Len(table) :
        /\ MatchupMatch(table[j], rows[i].league_key, rows[i].season, rows[i].week)
        /\ rows[i].matchup_key = table[j].matchup_key
  \/ \E i, j \in 1 .. Len(rows) :
        i # j /\ rows[i].matchup_key = rows[j].matchup_key

\* what the upstream API reports for one week of a league
WeekMatchups(week, status) ==
  << [matchup_key |-> "1", week |-> week,
      team1 |-> MatchupTeam("t1", "Colts", "Ann", I(4)),
      team2 |-> MatchupTeam("t2", "Bears", "Bob", I(2)),
      status |-> status],
     [matchup_key |-> "2", week |-> week,
      team1 |-> MatchupTeam("t3", "Lions", "Cid", I(3)),
      team2 |-> MatchupTeam("t4", "Rams", "Dee", I(3)),
      status |-> status] >>

UpstreamMatchups(leagueKey, week) ==
  {WeekMatchups(week, status) : status \in {"postevent", "POSTEVENT", "live", Undefined}}

\* getYearFromLeagueKey(leagueKey)?.toString() || new Date().getFullYear().toString()
YearOfLeagueKey(leagueKey, t) ==
  StrOr(GAME_KEY_TO_YEAR(leagueKey[1]), YearString(YearOf(t)))

\* ------------------------------- head-to-head cache (cache.ts, manager-utils.ts)
\* const [m1, m2] = [manager1, manager2].sort(); Managers are the owner
\* names of the model in the order String comparison gives them
SortedPair(manager1, manager2) ==
  LET Managers == <<"Ann", "Bob", "Cid">>
      at(name) == CHOOSE i \in 1 .. Len(Managers) : Managers[i] = name
  IN  IF at(manager2) < at(manager1) THEN <<manager2, manager1>>
      ELSE <<manager1, manager2>>

\* getCachedHeadToHead after the normalisation: <<>> stands for null, <<r>>
\* for the record r; .single() gives an error unless exactly one row matches
getCachedHeadToHead(outcome, table, manager1, manager2, t) ==
  LET m == SortedPair(manager1, manager2)
      data1 == SelectSeq(table, LAMBDA r : r.manager1 = m[1] /\ r.manager2 = m[2])
      data2 == SelectSeq(table, LAMBDA r : r.manager1 = m[2] /\ r.manager2 = m[1])
      fresh(row) == t - row.cached_at <= 7 * 24
      record(row, opponent) ==
        [opponent |-> opponent, wins |-> row.wins, losses |-> row.losses,
         ties |-> row.ties, total_games |-> row.total_games,
         points_for |-> row.points_for, points_against |-> row.points_against]
  IN  IF outcome = "throw" THEN <<>>
      ELSE IF outcome = "ok" /\ Len(data1) = 1 /\ fresh(data1[1])
      THEN <<record(data1[1], IF m[2] = manager2 THEN m[2] ELSE m[1])>>
      ELSE IF outcome # "ok" \/ Len(data2) # 1 THEN <<>>
      ELSE IF ~fresh(data2[1]) THEN <<>>
      ELSE <<record(data2[1], IF m[1] = manager2 THEN m[1] ELSE m[2])>>

HeadToHeadTotals_everyMatchup(manager1, manager2, allMatchups) ==
  LET all == [k \in 1 .. Len(allMatchups) |->
                SelectSeq(allMatchups[k], LAMBDA m :
                  \/ m.team1.owner_name = manager1 /\ m.team2.owner_name = manager2
                  \/ m.team1.owner_name = manager2 /\ m.team2.owner_name = manager1)]
      games == {p \in (1 .. Len(all)) \X (1 .. 2) : p[2] <= Len(all[p[1]])}
      mine(p) == IF all[p[1]][p[2]].team1.owner_name = manager1
                 THEN all[p[1]][p[2]].team1.points ELSE all[p[1]][p[2]].team2.points
      theirs(p) == IF all[p[1]][p[2]].team1.owner_name = manager1
                   THEN all[p[1]][p[2]].team2.points ELSE all[p[1]][p[2]].team1.points
      wins == Cardinality({p \in games : NumGt(mine(p), theirs(p))})
      losses == Cardinality({p \in games : NumLt(mine(p), theirs(p))})
      ties == Cardinality({p \in games : mine(p) = theirs(p)})
  IN  [opponent |-> manager2, wins |-> wins, losses |-> losses, ties |-> ties,
       total_games |-> wins + losses + ties,
       points_for |-> I(0), points_against |-> I(0)]

\* getHeadToHeadRecord: allMatchups.forEach(...) and the record built from
\* the counters; allMatchups holds the matchups of one (league, week) each
HeadToHeadTotals(manager1, manager2, allMatchups) ==
  LET found(k) ==
        {i \in 1 .. Len(allMatchups[k]) :
           \/ /\ allMatchups[k][i].team1.owner_name = manager1
              /\ allMatchups[k][i].team2.owner_name = manager2
           \/ /\ allMatchups[k][i].team1.owner_name = manager2
              /\ allMatchups[k][i].team2.owner_name = manager1}
      played == {k \in 1 .. Len(allMatchups) : found(k) # {}}
      matchup(k) ==
        allMatchups[k][CHOOSE i \in found(k) : \A j \in found(k) : i <= j]
      team1Points(k) == NumOr(matchup(k).team1.points, I(0))
      team2Points(k) == NumOr(matchup(k).team2.points, I(0))
      mine(k) == IF matchup(k).team1.owner_name = manager1
                 THEN team1Points(k) ELSE team2Points(k)
      theirs(k) == IF matchup(k).team1.owner_name = manager1
                   THEN team2Points(k) ELSE team1Points(k)
      wins == Cardinality({k \in played : NumGt(mine(k), theirs(k))})
      losses == Cardinality({k \in played : NumLt(mine(k), theirs(k))})
      ties == Cardinality({k \in played :
                             ~NumGt(mine(k), theirs(k)) /\ ~NumLt(mine(k), theirs(k))})
  IN  [opponent |-> manager2, wins |-> wins, losses |-> losses, ties |-> ties,
       total_games |-> wins + losses + ties,
       points_for |->
         SumNum([k \in 1 .. Len(allMatchups) |->
                   IF k \in played THEN mine(k) ELSE I(0)]),
       points_against |->
         SumNum([k \in 1 .. Len(allMatchups) |->
                   IF k \in played THEN theirs(k) ELSE I(0)])]

\* cacheHeadToHead: the table after its two deletes and its insert, each
\* resolving as outcomes says; a throw ends the function in its catch, and
\* schema.sql UNIQUE(manager1, manager2) makes the store reject a second row
cacheHeadToHead(table, manager1, manager2, record, outcomes, t) ==
  LET m == SortedPair(manager1, manager2)
      without(rows, a, b) ==
        SelectSeq(rows, LAMBDA r : ~(r.manager1 = a /\ r.manager2 = b))
      first == IF outcomes[1] = "ok" THEN without(table, m[1], m[2]) ELSE table
      second == IF outcomes[1] # "throw" /\ outcomes[2] = "ok"
                THEN without(first, m[2], m[1]) ELSE first
      inserted ==
        /\ outcomes[1] # "throw" /\ outcomes[2] # "throw" /\ outcomes[3] = "ok"
        /\ \A i \in 1 .. Len(second) :
              ~(second[i].manager1 = m[1] /\ second[i].manager2 = m[2])
  IN  IF inserted
      THEN Append(second,
                  [manager1 |-> m[1], manager2 |-> m[2], wins |-> record.wins,
                   losses |-> record.losses, ties |-> record.ties,
                   total_games |-> record.total_games,
                   points_for |-> Decimal2(record.points_for),
                   points_against |-> Decimal2(record.points_against),
                   cached_at |-> t])
      ELSE second

\* --------------------------------------------- Yahoo tokens (league-utils.ts)
\* Date.now(), counted in units of five minutes
DateNow(t) == 1000 + 12 * t

\* the yahoo_tokens row of the commissioner as the sign-in callback stored
\* it: good for an hour, for exactly five minutes, or expired
StoredTokens ==
  { << [user_id |-> "u1", access_token |-> "a0", refresh_token |-> "r0",
        expires_at |-> DateNow(0) + ahead] >> : ahead \in {12, 1, 0} }

\* refreshYahooToken(refreshToken): <<>> when it throws
refreshYahooToken(refreshToken, response, t) ==
  IF ~response.ok THEN <<>>
  ELSE << [access_token |-> response.access_token,
           refresh_token |-> StrOr(response.refresh_token, refreshToken),
           expires_at |-> DateNow(t) + response.expires_in] >>

\* ------------------------------------------------------------------ state
Workers == {"w1", "w2"}

VARIABLES
  now,                  \* wall clock, hours
  ticks,                \* clock steps taken
  CURRENT_SEASON_YEAR,  \* cache.ts module constant, set when the module loads
  league_standings,     \* table rows, in insertion order
  sds_plus_cache,       \* table rows, in insertion order
  pc,                   \* per request worker: the await it is suspended at
  loc,                  \* per request worker: locals of the running call
  res,                  \* per request worker: what its last call returned
  calls,                \* per request worker: calls started
  matchups,             \* table rows, in insertion order
  calcIn,               \* arguments of a direct calculateSDSPlus call
  calcOut,              \* what that call returned
  head_to_head_cache,   \* table rows, in insertion order
  yahoo_tokens          \* table rows, one per user

vars == <<now, ticks, CURRENT_SEASON_YEAR, league_standings, sds_plus_cache,
          pc, loc, res, calls, matchups, calcIn, calcOut,
          head_to_head_cache, yahoo_tokens>>

IdleLoc == [op |-> "none"]
NoRes == [done |-> FALSE]
NoCall == [standings |-> <<>>, weeklyScores |-> <<>>, regularSeasonWeeks |-> I(14)]

Init ==
  /\ now = 0
  /\ ticks = 0
  /\ CURRENT_SEASON_YEAR = YearOf(0)
  /\ league_standings \in {<<>>, LegacyRows2024}
  /\ sds_plus_cache = <<>>
  /\ pc = [w \in Workers |-> "idle"]
  /\ loc = [w \in Workers |-> IdleLoc]
  /\ res = [w \in Workers |-> NoRes]
  /\ calls = [w \in Workers |-> 0]
  /\ matchups = <<>>
  /\ calcIn = NoCall
  /\ calcOut = NoRes
  /\ head_to_head_cache = <<>>
  /\ yahoo_tokens = CHOOSE s \in StoredTokens : s[1].expires_at = DateNow(0) + 12

\* locals of a getLeagueStandings activation; caller says who awaits it
GLSLocals(leagueKey, caller, t) ==
  [leagueKey |-> leagueKey,
   season |-> SeasonOfLeagueKey(leagueKey, t),
   caller |-> caller,
   standings |-> <<>>,         \* what fetchLeagueStandings returned
   selectFailed |-> FALSE,     \* the cache select gave an error or threw
   deleteFailed |-> FALSE,     \* the cache delete gave an error or threw
   prevRows |-> <<>>]          \* rows under the key when the write began

NoGLS == [caller |-> "none"]

\* locals of a getSDSPlusScores activation
SDSLocals(leagueKey, skipWeeklyScores, season) ==
  [leagueKey |-> leagueKey,
   skip |-> skipWeeklyScores,
   season |-> season,
   cachedScores |-> <<>>,      \* what getCachedSDSPlus returned (<<>>: null)
   selectFailed |-> FALSE,     \* the cache select gave an error or threw
   standingsOk |-> FALSE,      \* standingsResult.success
   standings |-> <<>>,         \* standingsResult.data
   weekly |-> <<>>,            \* weeklyScores
   scores |-> <<>>,            \* scoresWithStats
   consulted |-> FALSE,        \* getCachedSDSPlus was called
   recomputed |-> FALSE,       \* calculateSDSPlus was called
   cacheCalled |-> FALSE,      \* cacheSDSPlus was called
   storeFailed |-> FALSE,      \* some store call of this request failed
   prevRows |-> <<>>]          \* rows under the key when the write began

\* a worker moves on: control point, locals and (when its call returns) result
Step(w, newPc, newLoc, newRes) ==
  /\ pc' = [pc EXCEPT ![w] = newPc]
  /\ loc' = [loc EXCEPT ![w] = newLoc]
  /\ res' = IF newRes.done THEN [res EXCEPT ![w] = newRes] ELSE res

\* getSDSPlusScores returns
ReturnFromSDS(w, sds, success, data, fromCache, storeFailed) ==
  Step(w, "idle", IdleLoc,
       [done |-> TRUE, op |-> "getSDSPlusScores", leagueKey |-> sds.leagueKey,
        skip |-> sds.skip, success |-> success, data |-> data,
        fromCache |-> fromCache, storeFailed |-> storeFailed,
        consulted |-> sds.consulted, recomputed |-> sds.recomputed,
        cacheCalled |-> sds.cacheCalled, selectFailed |-> sds.selectFailed,
        season |-> sds.season, standingsOk |-> sds.standingsOk,
        standings |-> sds.standings, weekly |-> sds.weekly, at |-> now])

\* getSDSPlusScores once scoresWithStats is built: cache them when the
\* weekly scores were skipped, then return them
ReturnScores(w, sds, scoresWithStats) ==
  IF UsesSDSCache(sds.skip)
  THEN Step(w, "sds_delete",
            [op |-> "getSDSPlusScores", gls |-> NoGLS,
             sds |-> [sds EXCEPT !.scores = scoresWithStats,
                                 !.cacheCalled = TRUE]], NoRes)
  ELSE ReturnFromSDS(w, [sds EXCEPT !.scores = scoresWithStats], TRUE,
                     scoresWithStats, FALSE, sds.storeFailed)

ComputeSDS_standingsUnchecked(w, sds, weeklyScores) ==
  ReturnScores(w, [sds EXCEPT !.recomputed = TRUE, !.weekly = weeklyScores],
               MergeStandings(ScoresFor(sds.standings, weeklyScores),
                              sds.standings))

\* getSDSPlusScores from `const weeklyScores = ...` on: the standings check,
\* calculateSDSPlus and the merge of the standings columns
ComputeSDS(w, sds, weeklyScores) ==
  IF ~sds.standingsOk
  THEN ReturnFromSDS(w, sds, FALSE, <<>>, FALSE, sds.storeFailed)
  ELSE ReturnScores(w, [sds EXCEPT !.recomputed = TRUE, !.weekly = weeklyScores],
                    MergeStandings(ScoresFor(sds.standings, weeklyScores),
                                   sds.standings))

\* getLeagueStandings returns r: to the client, or to the getSDSPlusScores
\* that awaits it as standingsResult
ReturnFromGLS(w, g, r, storeFailed) ==
  IF g.caller = "top"
  THEN Step(w, "idle", IdleLoc,
            [done |-> TRUE, op |-> "getLeagueStandings", leagueKey |-> g.leagueKey,
             success |-> r.success, data |-> r.data, fromCache |-> r.fromCache,
             storeFailed |-> storeFailed, selectFailed |-> g.selectFailed,
             fetched |-> g.standings, at |-> now])
  ELSE Step(w, "sds_standings",
            [op |-> "getSDSPlusScores", gls |-> NoGLS,
             sds |-> [loc[w].sds EXCEPT !.standingsOk = r.success,
                                        !.standings = r.data,
                                        !.storeFailed = @ \/ storeFailed]],
            NoRes)

\* a request for getLeagueStandings(leagueKey) arrives
CallGetLeagueStandings(w, leagueKey, limit) ==
  /\ pc[w] = "idle"
  /\ calls[w] < limit
  /\ calls' = [calls EXCEPT ![w] = @ + 1]
  /\ Step(w, "gls_select",
          [op |-> "getLeagueStandings", gls |-> GLSLocals(leagueKey, "top", now)],
          NoRes)
  /\ UNCHANGED <<calcIn, calcOut, head_to_head_cache, yahoo_tokens, matchups, now, ticks, CURRENT_SEASON_YEAR,
                 league_standings, sds_plus_cache>>

\* getLeagueStandings: await getCachedStandings(leagueKey, season)
GLS_Select(w, outcome, data) ==
  LET g == loc[w].gls
      cachedStandings ==
        getCachedStandings(outcome, data, g.season, CURRENT_SEASON_YEAR, now)
      g2 == [g EXCEPT !.selectFailed = (outcome # "ok")]
  IN  /\ pc[w] = "gls_select"
      /\ IF cachedStandings # <<>>
         THEN ReturnFromGLS(w, g2, [success |-> TRUE, data |-> cachedStandings,
                                    fromCache |-> TRUE], outcome # "ok")
         ELSE Step(w, "gls_fetch", [loc[w] EXCEPT !.gls = g2], NoRes)
      /\ UNCHANGED <<calcIn, calcOut, head_to_head_cache, yahoo_tokens, matchups, now, ticks,
                     CURRENT_SEASON_YEAR, league_standings, sds_plus_cache,
                     calls>>

GLS_SelectAny(w, outcomes) ==
  /\ pc[w] = "gls_select"
  /\ \E outcome \in outcomes :
       \E data \in OrderBy(RowsOfKey(league_standings, loc[w].gls.leagueKey,
                                      loc[w].gls.season), "rank") :
          GLS_Select(w, outcome, data)

\* getLeagueStandings: await fetchLeagueStandings(leagueKey)
GLS_Fetch(w) ==
  LET g == loc[w].gls
  IN  /\ pc[w] = "gls_fetch"
      /\ \/ \E standings \in UpstreamStandings(g.leagueKey) :
              Step(w, "gls_delete",
                   [loc[w] EXCEPT !.gls = [g EXCEPT !.standings = standings]],
                   NoRes)
         \/ \* the upstream call throws: caught by getLeagueStandings
            ReturnFromGLS(w, g, [success |-> FALSE, data |-> <<>>,
                                 fromCache |-> FALSE], g.selectFailed)
      /\ UNCHANGED <<calcIn, calcOut, head_to_head_cache, yahoo_tokens, matchups, now, ticks,
                     CURRENT_SEASON_YEAR, league_standings, sds_plus_cache,
                     calls>>

\* cacheStandings: await supabase...delete()
GLS_Delete(w, outcome) ==
  LET g == loc[w].gls
      g2 == [g EXCEPT !.deleteFailed = (outcome # "ok"),
                      !.prevRows = RowsOfKey(league_standings, g.leagueKey, g.season)]
  IN  /\ pc[w] = "gls_delete"
      /\ league_standings' =
           IF outcome = "ok"
           THEN RowsNotOfKey(league_standings, g.leagueKey, g.season)
           ELSE league_standings
      /\ IF outcome = "throw"
         THEN \* caught inside cacheStandings; the standings are returned
              ReturnFromGLS(w, g2, [success |-> TRUE, data |-> g.standings,
                                    fromCache |-> FALSE], TRUE)
         ELSE Step(w, "gls_insert", [loc[w] EXCEPT !.gls = g2], NoRes)
      /\ UNCHANGED <<calcIn, calcOut, head_to_head_cache, yahoo_tokens, matchups, now, ticks,
                     CURRENT_SEASON_YEAR, sds_plus_cache, calls>>

\* cacheStandings: await supabase...insert(rows)
\* UNIQUE(league_key, season, week, team_key) never rejects these rows:
\* week is NULL and NULLs are distinct in a unique constraint
GLS_Insert(w, outcome) ==
  LET g == loc[w].gls
  IN  /\ pc[w] = "gls_insert"
      /\ league_standings' =
           IF outcome = "ok"
           THEN league_standings
                  \o StandingsRows(g.leagueKey, g.season, g.standings, now)
           ELSE league_standings
      /\ ReturnFromGLS(w, g, [success |-> TRUE, data |-> g.standings,
                              fromCache |-> FALSE],
                       g.selectFailed \/ g.deleteFailed
                         \/ outcome # "ok")
      /\ UNCHANGED <<calcIn, calcOut, head_to_head_cache, yahoo_tokens, matchups, now, ticks,
                     CURRENT_SEASON_YEAR, sds_plus_cache, calls>>

\* a request for getSDSPlusScores(leagueKey, skipWeeklyScores) arrives
CallGetSDSPlusScores(w, leagueKey, skipWeeklyScores, lookup, limit) ==
  LET sds == SDSLocals(leagueKey, skipWeeklyScores,
                       SeasonForSDS(leagueKey, lookup, now))
  IN  /\ pc[w] = "idle"
      /\ calls[w] < limit
      /\ calls' = [calls EXCEPT ![w] = @ + 1]
      /\ IF UsesSDSCache(skipWeeklyScores)
         THEN Step(w, "sds_select",
                   [op |-> "getSDSPlusScores", gls |-> NoGLS, sds |-> sds], NoRes)
         ELSE Step(w, "gls_select",
                   [op |-> "getSDSPlusScores",
                    gls |-> GLSLocals(leagueKey, "sds_miss", now), sds |-> sds],
                   NoRes)
      /\ UNCHANGED <<calcIn, calcOut, head_to_head_cache, yahoo_tokens, matchups, now, ticks,
                     CURRENT_SEASON_YEAR, league_standings, sds_plus_cache>>

\* getSDSPlusScores: await getCachedSDSPlus(leagueKey, season); hit or miss,
\* the next await is getLeagueStandings
SDS_Select(w, outcome, data) ==
  LET sds == loc[w].sds
      cachedScores ==
        getCachedSDSPlus(outcome, data, sds.season, CURRENT_SEASON_YEAR, now)
      sds2 == [sds EXCEPT !.consulted = TRUE, !.cachedScores = cachedScores,
                          !.selectFailed = (outcome # "ok"),
                          !.storeFailed = (outcome # "ok")]
  IN  /\ pc[w] = "sds_select"
      /\ Step(w, "gls_select",
              [op |-> "getSDSPlusScores",
               gls |-> GLSLocals(sds.leagueKey,
                                 IF cachedScores # <<>> THEN "sds_hit" ELSE "sds_miss",
                                 now),
               sds |-> sds2], NoRes)
      /\ UNCHANGED <<calcIn, calcOut, head_to_head_cache, yahoo_tokens, matchups, now, ticks,
                     CURRENT_SEASON_YEAR, league_standings, sds_plus_cache,
                     calls>>

SDS_SelectAny(w, outcomes) ==
  /\ pc[w] = "sds_select"
  /\ \E outcome \in outcomes :
       \E data \in OrderBy(SDSRowsOfKey(sds_plus_cache, loc[w].sds.leagueKey,
                                         loc[w].sds.season), "sds_plus_rank") :
          SDS_Select(w, outcome, data)

\* getSDSPlusScores resumes with standingsResult: on a cache hit it merges
\* the standings into the cached scores and returns; on a miss it goes on to
\* the weekly scores, or straight to the calculation when they are skipped
SDS_Standings(w) ==
  LET sds == loc[w].sds
  IN  /\ pc[w] = "sds_standings"
      /\ IF sds.cachedScores # <<>>
         THEN ReturnFromSDS(w, sds, TRUE,
                            IF sds.standingsOk
                            THEN MergeStandings(sds.cachedScores, sds.standings)
                            ELSE sds.cachedScores,
                            TRUE, sds.storeFailed)
         ELSE IF ~sds.skip
         THEN Step(w, "sds_weekly", loc[w], NoRes)
         ELSE ComputeSDS(w, sds, <<>>)
      /\ UNCHANGED <<calcIn, calcOut, head_to_head_cache, yahoo_tokens, matchups, now, ticks, CURRENT_SEASON_YEAR,
                     league_standings, sds_plus_cache, calls>>

\* getSDSPlusScores: await getAllWeeklyScores(leagueKey); when that reports
\* success: false, weeklyScores is []
SDS_Weekly(w) ==
  /\ pc[w] = "sds_weekly"
  /\ \E weeklyScores \in UpstreamWeeklyScores(loc[w].sds.leagueKey) \cup {<<>>} :
        ComputeSDS(w, loc[w].sds, weeklyScores)
  /\ UNCHANGED <<calcIn, calcOut, head_to_head_cache, yahoo_tokens, matchups, now, ticks, CURRENT_SEASON_YEAR,
                 league_standings, sds_plus_cache, calls>>

\* cacheSDSPlus: await supabase...delete()
SDS_Delete(w, outcome) ==
  LET sds == loc[w].sds
      sds2 == [sds EXCEPT !.storeFailed = @ \/ outcome # "ok",
                          !.prevRows = SDSRowsOfKey(sds_plus_cache, sds.leagueKey,
                                                    sds.season)]
  IN  /\ pc[w] = "sds_delete"
      /\ sds_plus_cache' =
           IF outcome = "ok"
           THEN SDSRowsNotOfKey(sds_plus_cache, sds.leagueKey, sds.season)
           ELSE sds_plus_cache
      /\ IF outcome = "throw"
         THEN ReturnFromSDS(w, sds2, TRUE, sds.scores, FALSE, TRUE)
         ELSE Step(w, "sds_insert",
                   [op |-> "getSDSPlusScores", gls |-> NoGLS, sds |-> sds2], NoRes)
      /\ UNCHANGED <<calcIn, calcOut, head_to_head_cache, yahoo_tokens, matchups, now, ticks,
                     CURRENT_SEASON_YEAR, league_standings, calls>>

\* cacheSDSPlus: await supabase...insert(rows)
SDS_Insert(w, outcome) ==
  LET sds == loc[w].sds
      rows == SDSRows(sds.leagueKey, sds.season, sds.scores, now)
  IN  /\ pc[w] = "sds_insert"
      /\ outcome = "ok" => ~SDSInsertRejected(sds_plus_cache, rows)
      /\ sds_plus_cache' =
           IF outcome = "ok" THEN sds_plus_cache \o rows ELSE sds_plus_cache
      /\ ReturnFromSDS(w, sds, TRUE, sds.scores, FALSE,
                       sds.storeFailed \/ outcome # "ok")
      /\ UNCHANGED <<calcIn, calcOut, head_to_head_cache, yahoo_tokens, matchups, now, ticks,
                     CURRENT_SEASON_YEAR, league_standings, calls>>

\* fetchWeekMatchups returns (or throws: success = FALSE)
ReturnFromMU(w, success, data, fromCache) ==
  Step(w, "idle", IdleLoc,
       [done |-> TRUE, op |-> "fetchWeekMatchups",
        leagueKey |-> loc[w].mu.leagueKey, week |-> loc[w].mu.week,
        year |-> loc[w].mu.year, success |-> success, data |-> data,
        fromCache |-> fromCache, at |-> now])

\* a request for fetchWeekMatchups(leagueKey, week) arrives
CallFetchWeekMatchups(w, leagueKey, week, limit) ==
  /\ pc[w] = "idle"
  /\ calls[w] < limit
  /\ calls' = [calls EXCEPT ![w] = @ + 1]
  /\ Step(w, "mu_select",
          [op |-> "fetchWeekMatchups",
           mu |-> [leagueKey |-> leagueKey, week |-> week,
                   year |-> YearOfLeagueKey(leagueKey, now),
                   transformedMatchups |-> <<>>]],
          NoRes)
  /\ UNCHANGED <<calcIn, calcOut, head_to_head_cache, yahoo_tokens, matchups, now, ticks, CURRENT_SEASON_YEAR,
                 league_standings, sds_plus_cache>>

\* fetchWeekMatchups: await getCachedMatchups(leagueKey, year, week); the
\* rows cacheMatchups wrote carry both owner names, so a hit is returned as
\* it is
MU_Select(w, outcome, data) ==
  LET mu == loc[w].mu
      cachedMatchups ==
        getCachedMatchups(outcome, data, mu.year, CURRENT_SEASON_YEAR, now)
  IN  /\ pc[w] = "mu_select"
      /\ IF cachedMatchups # <<>>
         THEN ReturnFromMU(w, TRUE, cachedMatchups, TRUE)
         ELSE Step(w, "mu_fetch", loc[w], NoRes)
      /\ UNCHANGED <<calcIn, calcOut, head_to_head_cache, yahoo_tokens, matchups, now, ticks,
                     CURRENT_SEASON_YEAR, league_standings, sds_plus_cache,
                     calls>>

MU_SelectAny(w, outcomes) ==
  /\ pc[w] = "mu_select"
  /\ \E outcome \in outcomes :
       \E data \in OrderBy(MatchupRowsOfKey(matchups, loc[w].mu.leagueKey,
                                             loc[w].mu.year, loc[w].mu.week), "week") :
          MU_Select(w, outcome, data)

\* fetchWeekMatchups: the upstream request and its transformation
MU_Fetch(w) ==
  LET mu == loc[w].mu
  IN  /\ pc[w] = "mu_fetch"
      /\ \/ \E ms \in UpstreamMatchups(mu.leagueKey, mu.week) :
              Step(w, "mu_delete",
                   [loc[w] EXCEPT !.mu = [mu EXCEPT !.transformedMatchups = ms]],
                   NoRes)
         \/ \* the upstream request fails: fetchWeekMatchups throws
            ReturnFromMU(w, FALSE, <<>>, FALSE)
      /\ UNCHANGED <<calcIn, calcOut, head_to_head_cache, yahoo_tokens, matchups, now, ticks,
                     CURRENT_SEASON_YEAR, league_standings, sds_plus_cache,
                     calls>>

\* cacheMatchups: await supabase...delete()
MU_Delete(w, outcome) ==
  LET mu == loc[w].mu
      rows == MatchupRows(mu.leagueKey, mu.year, mu.week,
                          mu.transformedMatchups, now)
  IN  /\ pc[w] = "mu_delete"
      /\ matchups' =
           IF outcome = "ok"
           THEN MatchupRowsNotOfKey(matchups, mu.leagueKey, mu.year, mu.week)
           ELSE matchups
      /\ IF outcome = "throw" \/ Len(rows) = 0
         THEN ReturnFromMU(w, TRUE, mu.transformedMatchups, FALSE)
         ELSE Step(w, "mu_insert", loc[w], NoRes)
      /\ UNCHANGED <<calcIn, calcOut, head_to_head_cache, yahoo_tokens, now, ticks, CURRENT_SEASON_YEAR,
                     league_standings, sds_plus_cache, calls>>

\* cacheMatchups: await supabase...insert(rows)
MU_Insert(w, outcome) ==
  LET mu == loc[w].mu
      rows == MatchupRows(mu.leagueKey, mu.year, mu.week,
                          mu.transformedMatchups, now)
  IN  /\ pc[w] = "mu_insert"
      /\ outcome = "ok" => ~MatchupInsertRejected(matchups, rows)
      /\ matchups' = IF outcome = "ok" THEN matchups \o rows ELSE matchups
      /\ ReturnFromMU(w, TRUE, mu.transformedMatchups, FALSE)
      /\ UNCHANGED <<calcIn, calcOut, head_to_head_cache, yahoo_tokens, now, ticks, CURRENT_SEASON_YEAR,
                     league_standings, sds_plus_cache, calls>>

\* getHeadToHeadRecord returns
ReturnFromH2H(w, h, data, fromCache, cacheCalled) ==
  Step(w, "idle", IdleLoc,
       [done |-> TRUE, op |-> "getHeadToHeadRecord", manager1 |-> h.manager1,
        manager2 |-> h.manager2, data |-> data, fromCache |-> fromCache,
        cacheCalled |-> cacheCalled, games |-> h.games,
        at |-> now])

\* a request for getHeadToHeadRecord(manager1, manager2) arrives
CallGetHeadToHeadRecord(w, manager1, manager2, limit) ==
  /\ pc[w] = "idle"
  /\ calls[w] < limit
  /\ calls' = [calls EXCEPT ![w] = @ + 1]
  /\ Step(w, "h2h_select",
          [op |-> "getHeadToHeadRecord",
           h2h |-> [manager1 |-> manager1, manager2 |-> manager2,
                    record |-> <<>>, games |-> <<>>]],
          NoRes)
  /\ UNCHANGED <<calcIn, calcOut, head_to_head_cache, yahoo_tokens, matchups,
                 now, ticks, CURRENT_SEASON_YEAR, league_standings,
                 sds_plus_cache>>

\* getHeadToHeadRecord: await getCachedHeadToHead(manager1, manager2)
H2H_Select(w, outcome) ==
  /\ pc[w] = "h2h_select"
  /\ IF getCachedHeadToHead(outcome, head_to_head_cache, loc[w].h2h.manager1,
                            loc[w].h2h.manager2, now) # <<>>
     THEN ReturnFromH2H(w, loc[w].h2h,
                        getCachedHeadToHead(outcome, head_to_head_cache,
                                            loc[w].h2h.manager1,
                                            loc[w].h2h.manager2, now),
                        TRUE, FALSE)
     ELSE Step(w, "h2h_compute", loc[w], NoRes)
  /\ UNCHANGED <<calcIn, calcOut, head_to_head_cache, yahoo_tokens, matchups,
                 now, ticks, CURRENT_SEASON_YEAR, league_standings,
                 sds_plus_cache, calls>>

\* getHeadToHeadRecord from getAllLeaguesWithMetadata to the counters: the
\* standings of every league, then for every week of every league both
\* managers are in getCachedMatchups or, on a miss, fetchWeekMatchups, which
\* caches what it fetched (standings[k] and fetched are what upstream gives;
\* a failed fetch counts as a week without matchups). RivalryWeeks is what
\* fetchWeekMatchups can deliver for a week two rivals played: one game, the
\* same game listed from the other side and tied, or a week that lists the
\* pairing twice
H2H_Compute(w) ==
  LET h == loc[w].h2h
      RivalryWeeks(week) ==
        { WeekMatchups(week, "postevent"),
          << [matchup_key |-> "1", week |-> week,
              team1 |-> MatchupTeam("t2", "Bears", "Bob", I(3)),
              team2 |-> MatchupTeam("t1", "Colts", "Ann", I(3)),
              status |-> "postevent"] >>,
          << [matchup_key |-> "1", week |-> week,
              team1 |-> MatchupTeam("t1", "Colts", "Ann", I(4)),
              team2 |-> MatchupTeam("t2", "Bears", "Bob", I(2)),
              status |-> "postevent"],
             [matchup_key |-> "2", week |-> week,
              team1 |-> MatchupTeam("t2", "Bears", "Bob", I(5)),
              team2 |-> MatchupTeam("t1", "Colts", "Ann", I(1)),
              status |-> "postevent"] >> }
      Tally(leagues, standings, fetched) ==
        LET bothInLeague(k) ==
              /\ \E i \in 1 .. Len(standings[k]) :
                    standings[k][i].owner_name = h.manager1
              /\ \E i \in 1 .. Len(standings[k]) :
                    standings[k][i].owner_name = h.manager2
            nth(i) == CHOOSE week \in Weeks :
                        Cardinality({x \in Weeks : x < week})
                          = (i - 1) % Cardinality(Weeks)
            slots == SelectSeq([i \in 1 .. Len(leagues) * Cardinality(Weeks) |->
                                  [league |-> ((i - 1) \div Cardinality(Weeks)) + 1,
                                   week |-> nth(i)]],
                               LAMBDA s : bothInLeague(s.league))
            year(s) == YearOfLeagueKey(leagues[s.league], now)
            cached(s) ==
              getCachedMatchups("ok",
                                MatchupRowsOfKey(matchups, leagues[s.league],
                                                 year(s), s.week),
                                year(s), CURRENT_SEASON_YEAR, now)
            allMatchups ==
              [j \in 1 .. Len(slots) |->
                 IF cached(slots[j]) # <<>> THEN cached(slots[j])
                 ELSE fetched.matchups]
            RECURSIVE Written(_, _)
            Written(j, table) ==
              IF j > Len(slots) THEN table
              ELSE Written(j + 1,
                     IF cached(slots[j]) = <<>> /\ fetched.ok
                     THEN MatchupRowsNotOfKey(table, leagues[slots[j].league],
                                              year(slots[j]), slots[j].week)
                            \o MatchupRows(leagues[slots[j].league],
                                           year(slots[j]), slots[j].week,
                                           fetched.matchups, now)
                     ELSE table)
            record == HeadToHeadTotals(h.manager1, h.manager2, allMatchups)
        IN  /\ matchups' = Written(1, matchups)
            /\ IF record.total_games = 0
               THEN ReturnFromH2H(w, [h EXCEPT !.games = allMatchups], <<>>,
                                  FALSE, FALSE)
               ELSE Step(w, "h2h_write",
                         [loc[w] EXCEPT !.h2h = [h EXCEPT !.record = <<record>>,
                                                          !.games = allMatchups]],
                         NoRes)
  IN  /\ pc[w] = "h2h_compute"
      /\ \/ \* getAllLeaguesWithMetadata finds no league (it returns [] when
            \* the lookup fails)
            Tally(<<>>, <<>>, [ok |-> FALSE, matchups |-> <<>>])
         \/ \* the leagues, latest season first
            \E s1 \in UpstreamStandings(League2025) \cup {<<>>},
               s2 \in UpstreamStandings(League2024) \cup {<<>>},
               fetched \in {[ok |-> TRUE, matchups |-> ms] : ms \in RivalryWeeks(1)}
                             \cup {[ok |-> FALSE, matchups |-> <<>>]} :
              Tally(<<League2025, League2024>>, <<s1, s2>>, fetched)
      /\ UNCHANGED <<calcIn, calcOut, head_to_head_cache, yahoo_tokens, now,
                     ticks, CURRENT_SEASON_YEAR, league_standings,
                     sds_plus_cache, calls>>

\* getHeadToHeadRecord: await cacheHeadToHead(manager1, manager2, record)
H2H_Write(w, outcomes) ==
  /\ pc[w] = "h2h_write"
  /\ head_to_head_cache' =
       cacheHeadToHead(head_to_head_cache, loc[w].h2h.manager1,
                       loc[w].h2h.manager2, loc[w].h2h.record[1], outcomes, now)
  /\ ReturnFromH2H(w, loc[w].h2h, loc[w].h2h.record, FALSE, TRUE)
  /\ UNCHANGED <<calcIn, calcOut, yahoo_tokens, matchups, now, ticks,
                 CURRENT_SEASON_YEAR, league_standings, sds_plus_cache, calls>>

\* getValidYahooToken returns (thrown: it rejects instead)
ReturnFromTOK(w, k, token, thrown) ==
  Step(w, "idle", IdleLoc,
       [done |-> TRUE, op |-> "getValidYahooToken", token |-> token,
        thrown |-> thrown, userId |-> k.userId, stored |-> k.tokens,
        refreshed |-> k.refreshed, at |-> now])

\* a request for getValidYahooToken(userId) arrives; userId may be undefined
CallGetValidYahooToken(w, userId, limit) ==
  /\ pc[w] = "idle"
  /\ calls[w] < limit
  /\ calls' = [calls EXCEPT ![w] = @ + 1]
  /\ Step(w, "tok_select",
          [op |-> "getValidYahooToken",
           tok |-> [userId |-> userId, tokens |-> <<>>, refreshed |-> <<>>]],
          NoRes)
  /\ UNCHANGED <<calcIn, calcOut, head_to_head_cache, yahoo_tokens, matchups,
                 now, ticks, CURRENT_SEASON_YEAR, league_standings,
                 sds_plus_cache>>

\* getValidYahooToken: await the select (.eq('user_id', userId).single(), or
\* .limit(1).single() without a userId) and the expiry test; the expires_at
\* the callback stores is a number, so `tokens.expires_at &&` asks for a
\* non-zero one
TOK_Select(w, outcome) ==
  LET k == loc[w].tok
      rows == IF k.userId # Undefined
              THEN SelectSeq(yahoo_tokens, LAMBDA r : r.user_id = k.userId)
              ELSE SubSeq(yahoo_tokens, 1, 1)
      fiveMinutesFromNow == DateNow(now) + 1
  IN  /\ pc[w] = "tok_select"
      /\ IF outcome # "ok" \/ Len(rows) # 1
         THEN ReturnFromTOK(w, k, Undefined, TRUE)
         ELSE IF rows[1].expires_at # 0 /\ rows[1].expires_at < fiveMinutesFromNow
         THEN Step(w, "tok_refresh",
                   [loc[w] EXCEPT !.tok = [k EXCEPT !.tokens = rows,
                                                    !.userId = rows[1].user_id]],
                   NoRes)
         ELSE ReturnFromTOK(w, [k EXCEPT !.tokens = rows,
                                         !.userId = rows[1].user_id],
                            rows[1].access_token, FALSE)
      /\ UNCHANGED <<calcIn, calcOut, head_to_head_cache, yahoo_tokens, matchups,
                     now, ticks, CURRENT_SEASON_YEAR, league_standings,
                     sds_plus_cache, calls>>

\* getValidYahooToken: await refreshYahooToken(tokens.refresh_token); the
\* token endpoint answers with a new access token good for an hour, with or
\* without a new refresh token, or with an error status
TOK_Refresh(w) ==
  /\ pc[w] = "tok_refresh"
  /\ \E response \in
          { [ok |-> TRUE, access_token |-> "a" \o ToString(calls[w]),
             refresh_token |-> "r" \o ToString(calls[w]), expires_in |-> 12],
            [ok |-> TRUE, access_token |-> "a" \o ToString(calls[w]),
             refresh_token |-> Undefined, expires_in |-> 12],
            [ok |-> FALSE] } :
        IF refreshYahooToken(loc[w].tok.tokens[1].refresh_token, response, now) = <<>>
        THEN ReturnFromTOK(w, loc[w].tok, Undefined, TRUE)
        ELSE Step(w, "tok_update",
                  [loc[w] EXCEPT !.tok.refreshed =
                     refreshYahooToken(loc[w].tok.tokens[1].refresh_token,
                                       response, now)],
                  NoRes)
  /\ UNCHANGED <<calcIn, calcOut, head_to_head_cache, yahoo_tokens, matchups,
                 now, ticks, CURRENT_SEASON_YEAR, league_standings,
                 sds_plus_cache, calls>>

\* getValidYahooToken: await supabase...update({...}).eq('user_id', userId),
\* whose { error } is not looked at, and return refreshed.access_token
TOK_Update(w, outcome) ==
  LET k == loc[w].tok
  IN  /\ pc[w] = "tok_update"
      /\ yahoo_tokens' =
           IF outcome = "ok"
           THEN [i \in 1 .. Len(yahoo_tokens) |->
                   IF yahoo_tokens[i].user_id = k.userId
                   THEN [yahoo_tokens[i] EXCEPT
                           !.access_token = k.refreshed[1].access_token,
                           !.refresh_token = k.refreshed[1].refresh_token,
                           !.expires_at = k.refreshed[1].expires_at]
                   ELSE yahoo_tokens[i]]
           ELSE yahoo_tokens
      /\ IF outcome = "throw"
         THEN ReturnFromTOK(w, k, Undefined, TRUE)
         ELSE ReturnFromTOK(w, k, k.refreshed[1].access_token, FALSE)
      /\ UNCHANGED <<calcIn, calcOut, head_to_head_cache, matchups, now, ticks,
                     CURRENT_SEASON_YEAR, league_standings, sds_plus_cache,
                     calls>>

\* the wall clock advances: time is counted in hours, a request takes
\* seconds, so the clock moves between requests
Tick(d, limit) ==
  /\ \A w \in Workers : pc[w] = "idle"
  /\ ticks < limit
  /\ now' = now + d
  /\ ticks' = ticks + 1
  /\ UNCHANGED <<calcIn, calcOut, head_to_head_cache, yahoo_tokens, matchups, CURRENT_SEASON_YEAR,
                 league_standings, sds_plus_cache, pc, loc, res, calls>>

\* a new server process loads lib/cache.ts and evaluates its constants
ModuleLoad ==
  /\ \A w \in Workers : pc[w] = "idle"
  /\ CURRENT_SEASON_YEAR # YearOf(now)
  /\ CURRENT_SEASON_YEAR' = YearOf(now)
  /\ UNCHANGED <<calcIn, calcOut, head_to_head_cache, yahoo_tokens, matchups, now, ticks, league_standings,
                 sds_plus_cache, pc, loc, res, calls>>

\* requests served one after another, the store failing at will
Next ==
  \/ \E k \in Leagues : CallGetLeagueStandings("w1", k, MaxCalls)
  \/ GLS_SelectAny("w1", StoreOutcomes)
  \/ GLS_Fetch("w1")
  \/ \E o \in StoreOutcomes : GLS_Delete("w1", o)
  \/ \E o \in StoreOutcomes : GLS_Insert("w1", o)
  \/ \E k \in Leagues, skip \in BOOLEAN, lookup \in {"found", "missing", "throw"} :
        CallGetSDSPlusScores("w1", k, skip, lookup, MaxCalls)
  \/ SDS_SelectAny("w1", StoreOutcomes)
  \/ SDS_Standings("w1")
  \/ SDS_Weekly("w1")
  \/ \E o \in StoreOutcomes : SDS_Delete("w1", o)
  \/ \E o \in StoreOutcomes : SDS_Insert("w1", o)

Spec == Init /\ [][Next]_vars

\* two requests for the same league in flight at once, the store healthy
NextRace ==
  \/ \E w \in Workers : CallGetLeagueStandings(w, League2024, MaxRaceCalls)
  \/ \E w \in Workers : GLS_SelectAny(w, {"ok"})
  \/ \E w \in Workers : GLS_Fetch(w)
  \/ \E w \in Workers : GLS_Delete(w, "ok")
  \/ \E w \in Workers : GLS_Insert(w, "ok")

SpecRace == Init /\ [][NextRace]_vars

\* standings requests served one after another while time passes, the store
\* healthy
NextClock ==
  \/ \E k \in Leagues : CallGetLeagueStandings("w1", k, MaxClockCalls)
  \/ GLS_SelectAny("w1", {"ok"})
  \/ GLS_Fetch("w1")
  \/ GLS_Delete("w1", "ok")
  \/ GLS_Insert("w1", "ok")
  \/ \E d \in TickSteps : Tick(d, MaxTicks)
  \/ ModuleLoad

SpecClock == Init /\ [][NextClock]_vars

\* matchup requests served one after another by one server process while
\* weeks and years pass
NextWeeks ==
  \/ \E k \in Leagues, week \in Weeks :
        CallFetchWeekMatchups("w1", k, week, MaxClockCalls)
  \/ MU_SelectAny("w1", {"ok"})
  \/ MU_Fetch("w1")
  \/ MU_Delete("w1", "ok")
  \/ MU_Insert("w1", "ok")
  \/ \E d \in TickSteps \ {1} : Tick(d, MaxTicks)

SpecWeeks == Init /\ [][NextWeeks]_vars

\* requests about a season that is over, served one after another while
\* time passes
NextHistory ==
  \/ CallGetLeagueStandings("w1", League2024, MaxHistoryCalls)
  \/ GLS_SelectAny("w1", {"ok"})
  \/ GLS_Fetch("w1")
  \/ GLS_Delete("w1", "ok")
  \/ GLS_Insert("w1", "ok")
  \/ CallGetSDSPlusScores("w1", League2024, TRUE, "found", MaxHistoryCalls)
  \/ SDS_SelectAny("w1", {"ok"})
  \/ SDS_Standings("w1")
  \/ SDS_Delete("w1", "ok")
  \/ SDS_Insert("w1", "ok")
  \/ \E week \in Weeks : CallFetchWeekMatchups("w1", League2024, week, MaxHistoryCalls)
  \/ MU_SelectAny("w1", {"ok"})
  \/ MU_Fetch("w1")
  \/ MU_Delete("w1", "ok")
  \/ MU_Insert("w1", "ok")
  \/ \E d \in TickSteps : Tick(d, MaxTicks)
  \/ ModuleLoad

SpecHistory == Init /\ [][NextHistory]_vars

\* head-to-head requests served one after another while time passes; the
\* matchup cache may already hold a week of the 2024 season
InitH2H ==
  /\ now = 0
  /\ ticks = 0
  /\ CURRENT_SEASON_YEAR = YearOf(0)
  /\ league_standings = <<>>
  /\ sds_plus_cache = <<>>
  /\ pc = [w \in Workers |-> "idle"]
  /\ loc = [w \in Workers |-> IdleLoc]
  /\ res = [w \in Workers |-> NoRes]
  /\ calls = [w \in Workers |-> 0]
  /\ matchups = MatchupRows(League2024, "2024", 1, WeekMatchups(1, "postevent"), 0)
  /\ calcIn = NoCall
  /\ calcOut = NoRes
  /\ head_to_head_cache = <<>>
  /\ yahoo_tokens = CHOOSE s \in StoredTokens : s[1].expires_at = DateNow(0) + 12

NextH2H ==
  \/ \E pair \in {<<"Ann", "Bob">>, <<"Bob", "Ann">>, <<"Ann", "Cid">>} :
        CallGetHeadToHeadRecord("w1", pair[1], pair[2], MaxH2HCalls)
  \/ \E o \in StoreOutcomes : H2H_Select("w1", o)
  \/ H2H_Compute("w1")
  \/ \* a call that rejects ends cacheHeadToHead: none comes after it
     \E outcomes \in {o \in [1 .. 3 -> StoreOutcomes] :
                        \A i \in 1 .. 2 : o[i] = "throw" => o[i + 1] = "throw"} :
        H2H_Write("w1", outcomes)
  \/ Tick(CURRENT_SEASON_WEEKLY_TTL_HOURS - 1, MaxTicks)

SpecH2H == InitH2H /\ [][NextH2H]_vars

\* token requests served one after another while time passes; the stored
\* token is good for an hour, for exactly five minutes, or expired
InitTokens ==
  /\ now = 0
  /\ ticks = 0
  /\ CURRENT_SEASON_YEAR = YearOf(0)
  /\ league_standings = <<>>
  /\ sds_plus_cache = <<>>
  /\ pc = [w \in Workers |-> "idle"]
  /\ loc = [w \in Workers |-> IdleLoc]
  /\ res = [w \in Workers |-> NoRes]
  /\ calls = [w \in Workers |-> 0]
  /\ matchups = <<>>
  /\ calcIn = NoCall
  /\ calcOut = NoRes
  /\ head_to_head_cache = <<>>
  /\ yahoo_tokens \in StoredTokens

NextTokens ==
  \/ \E userId \in {"u1", Undefined} :
        CallGetValidYahooToken("w1", userId, MaxTokenCalls)
  \/ \E o \in StoreOutcomes : TOK_Select("w1", o)
  \/ TOK_Refresh("w1")
  \/ \E o \in StoreOutcomes : TOK_Update("w1", o)
  \/ \E d \in TickSteps : Tick(d, MaxTicks)

SpecTokens == InitTokens /\ [][NextTokens]_vars

\* ------------------------------------------- the engine called directly
MaxTeams == 3

TeamKeys == <<"t1", "t2", "t3", "t4">>

\* the standings of n teams: each has one of three season lines (wins,
\* losses, points for), and the final ranks are a permutation of 1 .. n
StandingsOf(n) ==
  LET TeamNames == <<"Colts", "Bears", "Lions", "Rams">>
      OwnerNames == <<"Ann", "Bob", "Cid", "Dee">>
      SeasonLines ==
        { [wins |-> 0, losses |-> 0, points_for |-> I(0)],
          [wins |-> 2, losses |-> 1, points_for |-> I(3)],
          [wins |-> 0, losses |-> 2, points_for |-> I(1)] }
      RankOrders ==
        {r \in [1 .. n -> 1 .. n] : \A i, j \in 1 .. n : i # j => r[i] # r[j]}
  IN  { [i \in 1 .. n |->
           Team(TeamKeys[i], TeamNames[i], OwnerNames[i], r[i], line[i].wins,
                line[i].losses, 0, line[i].points_for, I(4))] :
          line \in [1 .. n -> SeasonLines], r \in RankOrders }

\* two weeks of head-to-head scores among the first n teams
WeeklyOf(n) ==
  LET opp(i) == TeamKeys[IF i = n THEN 1 ELSE i + 1]
      week1 == [i \in 1 .. n |-> WeeklyScore(TeamKeys[i], 1, I(2 * i), opp(i))]
      week2 == [i \in 1 .. n |-> WeeklyScore(TeamKeys[i], 2, I(4), opp(i))]
  IN  week1 \o week2

\* four weeks with gaps in the opponent data: the second team's records
\* carry no opponent, the first team once met a team that is not in the
\* standings, and a team meets the same opponent again in weeks 3 and 4
WeeklyGapsOf(n) ==
  LET next(i) == TeamKeys[IF i = n THEN 1 ELSE i + 1]
      prev(i) == TeamKeys[IF i = 1 THEN n ELSE i - 1]
      opp(i, week) == IF i = 2 THEN Undefined
                      ELSE IF week = 2 THEN prev(i)
                      ELSE IF week = 3 /\ i = 1 THEN "t9"
                      ELSE next(i)
      points(i, week) == IF week <= 2 THEN I(2 * i) ELSE I(4)
  IN  [k \in 1 .. 4 * n |->
         WeeklyScore(TeamKeys[((k - 1) % n) + 1], ((k - 1) \div n) + 1,
                     points(((k - 1) % n) + 1, ((k - 1) \div n) + 1),
                     opp(((k - 1) % n) + 1, ((k - 1) \div n) + 1))]

\* the calls made: every standings of up to MaxTeams teams with every
\* weekly data, and a league of seven in which one team has not played yet
CalcInputs ==
  UNION { { [standings |-> st, weeklyScores |-> ws,
             regularSeasonWeeks |-> RegularSeasonWeeks(ws)] :
              st \in StandingsOf(n),
              ws \in {<<>>, WeeklyOf(n), WeeklyGapsOf(n), WeeklyOf(1)} } :
          n \in 0 .. MaxTeams }
    \cup { [standings |->
               << Team("t1", "Colts", "Ann", 1, 1, 3, 0, I(4), I(4)),
                  Team("t2", "Bears", "Bob", 3, 3, 2, 0, I(2), I(4)),
                  Team("t3", "Lions", "Cid", 5, 1, 0, 0, I(1), I(4)),
                  Team("t4", "Rams", "Dee", 2, 1, 2, 0, I(4), I(4)),
                  Team("t5", "Jets", "Eve", 4, 0, 0, 0, I(0), I(0)),
                  Team("t6", "Bills", "Fay", 7, 0, 1, 0, I(1), I(4)),
                  Team("t7", "Titans", "Gus", 6, 3, 0, 0, I(2), I(4)) >>,
            weeklyScores |-> <<>>,
            regularSeasonWeeks |-> RegularSeasonWeeks(<<>>)] }

InitCalc ==
  /\ now = 0
  /\ ticks = 0
  /\ CURRENT_SEASON_YEAR = YearOf(0)
  /\ league_standings = <<>>
  /\ sds_plus_cache = <<>>
  /\ matchups = <<>>
  /\ pc = [w \in Workers |-> "idle"]
  /\ loc = [w \in Workers |-> IdleLoc]
  /\ res = [w \in Workers |-> NoRes]
  /\ calls = [w \in Workers |-> 0]
  /\ calcIn \in CalcInputs
  /\ calcOut = NoRes
  /\ head_to_head_cache = <<>>
  /\ yahoo_tokens = CHOOSE s \in StoredTokens : s[1].expires_at = DateNow(0) + 12

\* calculateSDSPlus(standings, weeklyScores, regularSeasonWeeks) is called
Calculate ==
  /\ ~calcOut.done
  /\ calcOut' = [done |-> TRUE,
                 scores |-> calculateSDSPlus(calcIn.standings, calcIn.weeklyScores,
                                             calcIn.regularSeasonWeeks)]
  /\ UNCHANGED <<now, ticks, CURRENT_SEASON_YEAR, league_standings,
                 sds_plus_cache, matchups, pc, loc, res, calls, calcIn,
                 head_to_head_cache, yahoo_tokens>>

SpecCalc == InitCalc /\ [][Calculate]_vars

\* ------------------------------------------------------------ properties
IsSDSResult(w) == res[w].done /\ res[w].op = "getSDSPlusScores"
IsGLSResult(w) == res[w].done /\ res[w].op = "getLeagueStandings"

\* rows as stored, without the time they were written
Untimed(rows) == [i \in 1 .. Len(rows) |-> [rows[i] EXCEPT !.cached_at = 0]]

\* C1, as stated: every finished getSDSPlusScores request, whatever its
\* skipWeeklyScores, consulted the SDS+ cache first and, when it recomputed
\* the scores, handed them to cacheSDSPlus before returning.
C1_EveryRequestUsesCache ==
  \A w \in Workers :
     IsSDSResult(w) =>
       /\ res[w].consulted
       /\ res[w].recomputed => res[w].cacheCalled

\* C1, amended: a request with skipWeeklyScores = true consulted the SDS+
\* cache first and, when it recomputed, handed the scores to cacheSDSPlus
\* before returning (they are the rows of the key when the store accepted
\* them); a request with skipWeeklyScores = false neither read nor wrote it.
C1_CacheOnlyWhenSkipping ==
  \A w \in Workers :
     IsSDSResult(w) =>
       IF res[w].skip
       THEN /\ res[w].consulted
            /\ res[w].recomputed => res[w].cacheCalled
            /\ (pc[w] = "idle" /\ res[w].recomputed /\ ~res[w].storeFailed) =>
                 Untimed(SDSRowsOfKey(sds_plus_cache, res[w].leagueKey,
                                      res[w].season))
                   = Untimed(SDSRows(res[w].leagueKey, res[w].season,
                                     res[w].data, 0))
       ELSE ~res[w].consulted /\ ~res[w].cacheCalled

C1_Witness ==
  \E w \in Workers :
     /\ IsSDSResult(w) /\ res[w].skip /\ res[w].recomputed /\ res[w].cacheCalled
     /\ ~res[w].storeFailed
     /\ SDSRowsOfKey(sds_plus_cache, res[w].leagueKey, res[w].season) # <<>>

\* the times at which an entry may have been written, seen from now
Stamps ==
  {0, now, now - 1, now - 7 * 24, now - 8 * 24, now - 10 * HoursPerYear}
    \cup {league_standings[i].created_at : i \in 1 .. Len(league_standings)}
    \cup {sds_plus_cache[i].cached_at : i \in 1 .. Len(sds_plus_cache)}
    \cup {matchups[i].created_at : i \in 1 .. Len(matchups)}

IsCurrent(season) == ParseInt(season) = I(CURRENT_SEASON_YEAR)
IsMUResult(w) == res[w].done /\ res[w].op = "fetchWeekMatchups"
MissingOwner == {Undefined, Null, ""}

\* C2: isCacheFresh is true for every write time and either value of
\* isCompletedWeek when the season is not the current one; whatever the
\* clock shows, the rows kept for a season that is not current are served
\* by getCachedStandings, getCachedSDSPlus and getCachedMatchups.
C2_HistoricalNeverExpires ==
  /\ \A cachedAt \in Stamps, isCompletedWeek \in BOOLEAN :
        isCacheFresh(cachedAt, FALSE, isCompletedWeek, now)
  /\ \A k \in Leagues :
        LET season == SeasonOfLeagueKey(k, now)
        IN  ~IsCurrent(season) =>
              /\ \A data \in OrderBy(RowsOfKey(league_standings, k, season), "rank") :
                    (data # <<>> /\ ~hasMissingOwnerNames(data)) =>
                      getCachedStandings("ok", data, season,
                                         CURRENT_SEASON_YEAR, now) # <<>>
              /\ \A data \in OrderBy(SDSRowsOfKey(sds_plus_cache, k, season),
                                    "sds_plus_rank") :
                    data # <<>> =>
                      getCachedSDSPlus("ok", data, season,
                                       CURRENT_SEASON_YEAR, now) # <<>>
              /\ \A week \in Weeks :
                    \A data \in OrderBy(MatchupRowsOfKey(matchups, k, season, week),
                                        "week") :
                       data # <<>> =>
                         getCachedMatchups("ok", data, season,
                                           CURRENT_SEASON_YEAR, now) # <<>>

C2_Witness ==
  \E w \in Workers :
     /\ IsSDSResult(w) /\ res[w].fromCache /\ res[w].at = now
     /\ ~IsCurrent(res[w].season)
     /\ \E i \in 1 .. Len(sds_plus_cache) :
           /\ SDSMatch(sds_plus_cache[i], res[w].leagueKey, res[w].season)
           /\ now - sds_plus_cache[i].cached_at >= HoursPerYear

\* C3: for an entry of the current season that is not a completed week,
\* isCacheFresh is true exactly when fewer than 7 * 24 hours have passed
\* since it was written (1 hour: fresh; 168 hours, 8 days: stale), and
\* getCachedStandings serves current-season rows exactly that long.
C3_TTLIsStrict ==
  /\ \A cachedAt \in Stamps :
        isCacheFresh(cachedAt, TRUE, FALSE, now) <=> (now - cachedAt < 7 * 24)
  /\ isCacheFresh(now - 1, TRUE, FALSE, now)
  /\ ~isCacheFresh(now - 7 * 24, TRUE, FALSE, now)
  /\ ~isCacheFresh(now - 8 * 24, TRUE, FALSE, now)
  /\ \A k \in Leagues :
        LET season == SeasonOfLeagueKey(k, now)
        IN  IsCurrent(season) =>
              \A data \in OrderBy(RowsOfKey(league_standings, k, season), "rank") :
                 (data # <<>> /\ ~hasMissingOwnerNames(data)) =>
                   ((getCachedStandings("ok", data, season,
                                        CURRENT_SEASON_YEAR, now) # <<>>)
                      <=> (\A i \in 1 .. Len(data) :
                              now - data[i].created_at < 7 * 24))

C3_Witness ==
  \E w \in Workers :
     /\ IsGLSResult(w) /\ ~res[w].fromCache /\ res[w].at = now
     /\ LET season == SeasonOfLeagueKey(res[w].leagueKey, now)
            rows == RowsOfKey(league_standings, res[w].leagueKey, season)
        IN  /\ IsCurrent(season)
            /\ rows # <<>>
            /\ ~hasMissingOwnerNames(rows)
            /\ \A i \in 1 .. Len(rows) : now - rows[i].created_at = 7 * 24

\* the spellings of a completed status among the status strings
StatusValues ==
  {"postevent", "POSTEVENT", "completed", "Completed", "finished", "final",
   "Final", "live", "upcoming", "", Null}
ClosedSpellings ==
  {"postevent", "POSTEVENT", "completed", "Completed", "finished", "final",
   "Final"}

\* C4: isCacheFresh is true for every write time when the entry is a
\* completed week of the current season, and getCachedMatchups serves the
\* rows of such a week whatever their age.
C4_CompletedWeekNeverExpires ==
  /\ \A cachedAt \in Stamps : isCacheFresh(cachedAt, TRUE, TRUE, now)
  /\ \A k \in Leagues, week \in Weeks :
        LET season == YearOfLeagueKey(k, now)
        IN  IsCurrent(season) =>
              \A data \in OrderBy(MatchupRowsOfKey(matchups, k, season, week), "week") :
                 (data # <<>> /\ \E i \in 1 .. Len(data) :
                                    data[i].status \in ClosedSpellings) =>
                   getCachedMatchups("ok", data, season,
                                     CURRENT_SEASON_YEAR, now) # <<>>

C4_Witness ==
  \E w \in Workers :
     /\ IsMUResult(w) /\ res[w].fromCache /\ res[w].at = now
     /\ IsCurrent(res[w].year)
     /\ \E i \in 1 .. Len(matchups) :
           /\ MatchupMatch(matchups[i], res[w].leagueKey, res[w].year, res[w].week)
           /\ now - matchups[i].created_at >= HoursPerYear

\* C5: the rows of a week outlive the weekly TTL in getCachedMatchups
\* exactly when the season is not the current one or some row carries a
\* completed status in any letter case; for a season that is not current
\* they do so whatever the statuses are, null and unknown strings included.
C5_ClosedWeekRule ==
  \A k \in Leagues, week \in Weeks :
     LET season == YearOfLeagueKey(k, now)
         data == MatchupRowsOfKey(matchups, k, season, week)
     IN  data # <<>> =>
           \A status \in StatusValues :
              LET d == [data EXCEPT ![1].status = status]
                  outlives ==
                    getCachedMatchups("ok", d, season, CURRENT_SEASON_YEAR,
                                      now + 7 * 24) # <<>>
              IN  /\ outlives <=>
                       \/ ~IsCurrent(season)
                       \/ \E i \in 1 .. Len(d) : d[i].status \in ClosedSpellings
                  /\ ~IsCurrent(season) => outlives

C5_Witness ==
  \E w \in Workers :
     /\ IsMUResult(w) /\ res[w].fromCache /\ res[w].at = now
     /\ IsCurrent(res[w].year)
     /\ \E i \in 1 .. Len(matchups) :
           /\ MatchupMatch(matchups[i], res[w].leagueKey, res[w].year, res[w].week)
           /\ matchups[i].status = "POSTEVENT"
           /\ now - matchups[i].created_at >= 7 * 24

\* C6: getCachedStandings gives null for the whole set as soon as one row
\* has owner_name undefined, null or empty, at any age and for any season;
\* what it returns otherwise is every row, none of them without an owner.
C6_MissingOwnerIsMiss ==
  \A k \in Leagues :
     LET season == SeasonOfLeagueKey(k, now)
     IN  \A data \in OrderBy(RowsOfKey(league_standings, k, season), "rank") :
            data # <<>> =>
              \A owner \in MissingOwner \cup {data[1].owner_name} :
                 LET d == [data EXCEPT ![1].owner_name = owner]
                     cached == getCachedStandings("ok", d, season,
                                                  CURRENT_SEASON_YEAR, now)
                 IN  /\ (\E i \in 1 .. Len(d) : d[i].owner_name \in MissingOwner)
                          => cached = <<>>
                     /\ cached # <<>> =>
                          /\ Len(cached) = Len(d)
                          /\ \A i \in 1 .. Len(d) :
                                /\ cached[i].team_key = d[i].team_key
                                /\ cached[i].owner_name = d[i].owner_name
                                /\ cached[i].owner_name \notin MissingOwner

C6_Witness ==
  \E w \in Workers :
     /\ IsGLSResult(w) /\ ~res[w].fromCache /\ ~res[w].selectFailed
     /\ res[w].at = now
     /\ LET season == SeasonOfLeagueKey(res[w].leagueKey, now)
            rows == RowsOfKey(league_standings, res[w].leagueKey, season)
        IN  /\ ~IsCurrent(season)
            /\ \E i \in 1 .. Len(rows) : rows[i].owner_name = ""
            /\ \E i \in 1 .. Len(rows) : rows[i].owner_name \notin MissingOwner
            /\ \A i \in 1 .. Len(rows) : rows[i].created_at < now

\* C10: for N teams with distinct keys calculateSDSPlus returns N records,
\* one per team, ranked 1 .. N in the order returned, each score at least
\* the score of the next rank.
C10_RanksFollowScores ==
  calcOut.done =>
    LET out == calcOut.scores
        N == Len(calcIn.standings)
    IN  /\ Len(out) = N
        /\ {out[i].team_key : i \in 1 .. Len(out)}
             = {calcIn.standings[i].team_key : i \in 1 .. N}
        /\ \A i \in 1 .. Len(out) : out[i].rank = i
        /\ \A i \in 1 .. (Len(out) - 1) : NumGe(out[i].score, out[i + 1].score)

\* C7: a call during which a store operation failed or threw, while the
\* upstream standings were obtained, returned success with the fetched
\* standings (getLeagueStandings) or the scores computed from them
\* (getSDSPlusScores); a failed cache read was taken as a miss.
C7_StoreFailuresStayInside ==
  \A w \in Workers :
     /\ (IsGLSResult(w) /\ res[w].storeFailed /\ res[w].fetched # <<>>) =>
          /\ res[w].success
          /\ res[w].data = res[w].fetched
     /\ (IsGLSResult(w) /\ res[w].selectFailed) =>
          ~res[w].fromCache
     /\ (IsSDSResult(w) /\ res[w].storeFailed /\ res[w].standingsOk) =>
          /\ res[w].success
          /\ res[w].recomputed =>
               res[w].data = MergeStandings(ScoresFor(res[w].standings,
                                                      res[w].weekly),
                                            res[w].standings)
     /\ (IsSDSResult(w) /\ res[w].selectFailed) =>
          ~res[w].fromCache

C7_Witness ==
  \E w \in Workers :
     /\ IsSDSResult(w) /\ res[w].storeFailed /\ res[w].standingsOk
     /\ res[w].success /\ res[w].recomputed /\ res[w].cacheCalled

\* C8: when the cache write of a single writer finishes, the rows under its
\* key are never the rows of the previous value followed by the new rows.
C8_WriteNeverMixes ==
  [][\A w \in Workers :
       (pc[w] = "gls_insert" /\ pc'[w] # "gls_insert") =>
         LET g == loc[w].gls
         IN  ~(/\ g.prevRows # <<>>
               /\ g.standings # <<>>
               /\ RowsOfKey(league_standings', g.leagueKey, g.season)
                    = g.prevRows \o StandingsRows(g.leagueKey, g.season,
                                                  g.standings, now))]_vars

\* C9: with two writers of one key in flight, a read that is served from the
\* cache returns exactly the row set one writer stored.
C9_ReadIsOneWritersSet ==
  \A w \in Workers :
     (IsGLSResult(w) /\ res[w].fromCache) =>
       \E st \in UpstreamStandings(res[w].leagueKey) :
          LET rows == StandingsRows(res[w].leagueKey, "2024", st, 0)
          IN  res[w].data = [i \in 1 .. Len(rows) |-> StandingOfRow(rows[i])]

\* the record calculateSDSPlus returned for the team at position i of the
\* standings it was called with
OutputOf(i) ==
  calcOut.scores[FindIndex1(calcOut.scores, calcIn.standings[i].team_key)]

\* C11: a second call of calculateSDSPlus with the same arguments returns the
\* same records, and of two teams whose returned scores are equal the one
\* that comes first in the standings gets the smaller rank.
C11_DeterministicAndStable ==
  calcOut.done =>
    /\ calcOut.scores = calculateSDSPlus(calcIn.standings, calcIn.weeklyScores,
                                         calcIn.regularSeasonWeeks)
    /\ \A i, j \in 1 .. Len(calcIn.standings) :
         (i < j /\ NumEq(OutputOf(i).score, OutputOf(j).score)) =>
           OutputOf(i).rank < OutputOf(j).rank

\* the score and the breakdown fields of a returned record
NumbersOf(record) ==
  {record.score} \cup {record.breakdown[f] : f \in DOMAIN record.breakdown}

\* C12: called with exactly one team, calculateSDSPlus returns one record
\* whose score and breakdown fields are all defined numbers (none is NaN).
C12_SingleTeamIsDefined ==
  (calcOut.done /\ Len(calcIn.standings) = 1) =>
    /\ Len(calcOut.scores) = 1
    /\ \A x \in NumbersOf(calcOut.scores[1]) : ~IsNaN(x)

GamesPlayed(team) == team.wins + team.losses + team.ties

\* C13: for two or more teams and no weekly scores, when some team has
\* played no game, every score and every breakdown field returned is a
\* finite number.
C13_ZeroGamesIsFinite ==
  (/\ calcOut.done
   /\ Len(calcIn.standings) >= 2
   /\ calcIn.weeklyScores = <<>>
   /\ \E i \in 1 .. Len(calcIn.standings) : GamesPlayed(calcIn.standings[i]) = 0) =>
    \A i \in 1 .. Len(calcOut.scores) :
       \A x \in NumbersOf(calcOut.scores[i]) : IsFinite(x)

\* C14: for non-empty standings and no weekly scores calculateSDSPlus returns
\* one record per team, and the consistency index of every record is
\* exactly 0.
C14_NoWeeklyDataNoConsistency ==
  (calcOut.done /\ calcIn.standings # <<>> /\ calcIn.weeklyScores = <<>>) =>
    /\ Len(calcOut.scores) = Len(calcIn.standings)
    /\ \A i \in 1 .. Len(calcIn.standings) :
          /\ FindIndex1(calcOut.scores, calcIn.standings[i].team_key) > 0
          /\ OutputOf(i).breakdown.consistencyIndex = I(0)

C14_Witness ==
  /\ calcOut.done
  /\ Len(calcIn.standings) >= 2
  /\ calcIn.weeklyScores = <<>>
  /\ \A i \in 1 .. Len(calcIn.standings) :
        /\ GamesPlayed(calcIn.standings[i]) > 0
        /\ OutputOf(i).breakdown.consistencyIndex = I(0)
        /\ IsFinite(OutputOf(i).score)

\* C15: called with an empty standings list, calculateSDSPlus returns an
\* empty list.
C15_EmptyStandingsEmptyResult ==
  (calcOut.done /\ calcIn.standings = <<>>) => calcOut.scores = <<>>

C15_Witness ==
  /\ calcOut.done
  /\ calcIn.standings = <<>>
  /\ calcIn.weeklyScores # <<>>
  /\ calcOut.scores = <<>>

\* the standings with the final ranks of the teams at positions i and j
\* exchanged
RanksSwapped(standings, i, j) ==
  [k \in 1 .. Len(standings) |->
     IF k = i THEN [standings[i] EXCEPT !.rank = standings[j].rank]
     ELSE IF k = j THEN [standings[j] EXCEPT !.rank = standings[i].rank]
     ELSE standings[k]]

\* the score calculateSDSPlus gives the team with the key when called with
\* the standings and the weekly scores of the call under test
ScoreWith(standings, key) ==
  LET scores == calculateSDSPlus(standings, calcIn.weeklyScores,
                                 calcIn.regularSeasonWeeks)
  IN  scores[FindIndex1(scores, key)].score

\* C16: in a league of two or more teams, the score of the team with final
\* rank 1 is strictly greater than the score the same team gets when it
\* exchanges final ranks with the team of rank 2, everything else unchanged.
C16_ChampionScoresHigher ==
  calcOut.done =>
    \A i, j \in 1 .. Len(calcIn.standings) :
       (calcIn.standings[i].rank = 1 /\ calcIn.standings[j].rank = 2) =>
         NumGt(OutputOf(i).score,
               ScoreWith(RanksSwapped(calcIn.standings, i, j),
                         calcIn.standings[i].team_key))

\* the tiers of the interpretation, from the highest threshold down
TierOf(score) ==
  IF NumGe(score, I(95)) THEN "All-time, era-defining season"
  ELSE IF NumGe(score, I(85)) THEN "Dominant, likely robbed by variance"
  ELSE IF NumGe(score, I(75)) THEN "Elite champion or contender"
  ELSE IF NumGe(score, I(65)) THEN "Solid title or strong season"
  ELSE "Average or luck-driven outcome"

\* C17 as stated: the interpretation of every returned record is the first
\* matching tier of the score the record reports.
C17_TierOfReportedScore ==
  calcOut.done =>
    \A i \in 1 .. Len(calcOut.scores) :
       calcOut.scores[i].interpretation = TierOf(calcOut.scores[i].score)

\* C17: the interpretation of every returned record is the first matching
\* tier of the score before its rounding to one decimal: the tier of the
\* reported score or, when the score was rounded up onto a threshold, the
\* tier below it.
C17_TierOfUnroundedScore ==
  calcOut.done =>
    \A i \in 1 .. Len(calcOut.scores) :
       \/ calcOut.scores[i].interpretation = TierOf(calcOut.scores[i].score)
       \/ /\ calcOut.scores[i].score \in {I(95), I(85), I(75), I(65)}
          /\ calcOut.scores[i].interpretation
               = TierOf(NumSub(calcOut.scores[i].score, Q(1, 20)))

C17_Witness ==
  /\ calcOut.done
  /\ \E i \in 1 .. Len(calcOut.scores) :
        /\ calcOut.scores[i].score = I(95)
        /\ calcOut.scores[i].interpretation = "Dominant, likely robbed by variance"
  /\ \E i \in 1 .. Len(calcOut.scores) :
        /\ NumGe(calcOut.scores[i].score, I(65))
        /\ calcOut.scores[i].interpretation = TierOf(calcOut.scores[i].score)

\* min(0.95, 1.1 * wins / gamesPlayed), and 0.5 when no game was played
EstimatedAPW(team) ==
  IF GamesPlayed(team) > 0
  THEN NumMin(Q(95, 100), NumMul(Q(11, 10), Q(team.wins, GamesPlayed(team))))
  ELSE Q(1, 2)

\* C18: without weekly scores the all-play win percentage reported for a
\* team is min(0.95, 1.1 * wins / gamesPlayed) (0 for a winless team), and
\* 0.5 for a team that has played no game.
C18_EstimatedAllPlay ==
  (calcOut.done /\ calcIn.weeklyScores = <<>>) =>
    \A i \in 1 .. Len(calcIn.standings) :
       OutputOf(i).breakdown.allPlayWinPct
         = RoundTo(EstimatedAPW(calcIn.standings[i]), 1000)

\* the keys of the standings, the weeks of the weekly scores, and the
\* records of the weekly scores that belong to a team
KeysOf(standings) == {standings[i].team_key : i \in 1 .. Len(standings)}
WeeksIn(weeklyScores) == {weeklyScores[k].week : k \in 1 .. Len(weeklyScores)}
RecordsOf(weeklyScores, key) ==
  {k \in 1 .. Len(weeklyScores) : weeklyScores[k].team_key = key}

\* every team of the standings has exactly one record in every week
EveryTeamEveryWeek(standings, weeklyScores) ==
  /\ weeklyScores # <<>>
  /\ \A key \in KeysOf(standings) : \A week \in WeeksIn(weeklyScores) :
        Cardinality({k \in RecordsOf(weeklyScores, key) :
                       weeklyScores[k].week = week}) = 1

PointsIn(weeklyScores, key, week) ==
  weeklyScores[CHOOSE k \in RecordsOf(weeklyScores, key) :
                 weeklyScores[k].week = week].points

\* the (week, other team) pairs in which the team scored strictly more
AllPlayWins(standings, weeklyScores, key) ==
  {p \in WeeksIn(weeklyScores) \X (KeysOf(standings) \ {key}) :
     NumGt(PointsIn(weeklyScores, key, p[1]), PointsIn(weeklyScores, p[2], p[1]))}

\* C19: with a weekly score for every team in every week, the all-play win
\* percentage reported for a team is the number of (week, other team) pairs
\* it won, divided by weeks * (N - 1); it lies in [0, 1], and it is 0 for a
\* team that never outscored another.
C19_AllPlayIsWinsOverMatchups ==
  (/\ calcOut.done
   /\ Len(calcIn.standings) >= 2
   /\ EveryTeamEveryWeek(calcIn.standings, calcIn.weeklyScores)) =>
    \A i \in 1 .. Len(calcIn.standings) :
       /\ OutputOf(i).breakdown.allPlayWinPct
            = RoundTo(Q(Cardinality(AllPlayWins(calcIn.standings, calcIn.weeklyScores,
                                                calcIn.standings[i].team_key)),
                        Cardinality(WeeksIn(calcIn.weeklyScores))
                          * (Len(calcIn.standings) - 1)),
                      1000)
       /\ NumGe(OutputOf(i).breakdown.allPlayWinPct, I(0))
       /\ NumGe(I(1), OutputOf(i).breakdown.allPlayWinPct)

RECURSIVE SumOver(_, _)
SumOver(keys, map) ==
  IF keys = {} THEN I(0)
  ELSE LET k == CHOOSE k \in keys : TRUE
       IN  NumAdd(map[k], SumOver(keys \ {k}, map))

MeanOver(keys, map) == NumDiv(SumOver(keys, map), I(Cardinality(keys)))

\* the distinct opponents of a team that are teams of the standings
OpponentsOf(standings, weeklyScores, key) ==
  {weeklyScores[k].opponent_key : k \in RecordsOf(weeklyScores, key)}
    \cap KeysOf(standings)

\* 1 + (A - 0.50) with A the mean all-play win percentage of the team's
\* opponents, or of the whole league when it has none
ScheduleStrength(standings, weeklyScores, key) ==
  LET map == AllPlayWinPcts(standings, weeklyScores)
      opponents == OpponentsOf(standings, weeklyScores, key)
      A == IF opponents # {} THEN MeanOver(opponents, map)
           ELSE MeanOver(KeysOf(standings), map)
  IN  NumAdd(I(1), NumSub(A, Q(1, 2)))

StdDevsOf(standings, weeklyScores) ==
  [i \in 1 .. Len(standings) |->
     calculateTeamStdDev(standings[i].team_key, weeklyScores)]

\* C21: with weekly data and a positive league average of the per-team
\* standard deviations, taken over all teams, every team's consistency index
\* is 1 - teamStdDev / leagueAvgStdDev clamped to [-1, 1] (reported to two
\* decimals); a team whose weekly scores are all equal gets 1.
C21_ConsistencyOverAllTeams ==
  (/\ calcOut.done
   /\ calcIn.weeklyScores # <<>>
   /\ calcIn.standings # <<>>
   /\ EveryTeamEveryWeek(calcIn.standings, calcIn.weeklyScores)
   /\ NumGt(Average(StdDevsOf(calcIn.standings, calcIn.weeklyScores), I(0)), I(0))) =>
    \A i \in 1 .. Len(calcIn.standings) :
       /\ OutputOf(i).breakdown.consistencyIndex =
            RoundTo(NumMax(I(-1), NumMin(I(1), NumSub(I(1),
              NumDiv(StdDevsOf(calcIn.standings, calcIn.weeklyScores)[i],
                     Average(StdDevsOf(calcIn.standings, calcIn.weeklyScores), I(0)))))),
                    100)
       /\ NumGe(OutputOf(i).breakdown.consistencyIndex, I(-1))
       /\ NumGe(I(1), OutputOf(i).breakdown.consistencyIndex)

\* C29: within one calculateSDSPlus call the all-play win percentage of a
\* team held in the allPlayWinPcts map, which is what enters the other
\* teams' opponent average and the league-average fallback, is the value
\* reported (to three decimals) in the team's own breakdown.allPlayWinPct,
\* also for a team whose all-play win percentage is 0.
C29_OneAllPlayValuePerTeam ==
  (calcOut.done /\ calcIn.standings # <<>>) =>
    \A i \in 1 .. Len(calcIn.standings) :
       OutputOf(i).breakdown.allPlayWinPct =
         RoundTo(AllPlayWinPcts(calcIn.standings, calcIn.weeklyScores)
                   [calcIn.standings[i].team_key], 1000)

\* C23: a week of the current season that the upstream API reported without
\* a status, once cacheMatchups has written it, is not a completed week for
\* getCachedMatchups: read back more than 7 days after the write, its rows
\* are stale.
C23_MissingStatusStaysOpen ==
  \A w \in Workers :
     (/\ IsMUResult(w) /\ res[w].success /\ ~res[w].fromCache
      /\ IsCurrent(res[w].year)
      /\ res[w].data # <<>>
      /\ \A i \in 1 .. Len(res[w].data) : res[w].data[i].status \in {Null, Undefined}
      /\ \E i \in 1 .. Len(matchups) :
            /\ MatchupMatch(matchups[i], res[w].leagueKey, res[w].year, res[w].week)
            /\ matchups[i].created_at = res[w].at) =>
       getCachedMatchups("ok",
                         MatchupRowsOfKey(matchups, res[w].leagueKey, res[w].year,
                                          res[w].week),
                         res[w].year, CURRENT_SEASON_YEAR,
                         res[w].at + CURRENT_SEASON_WEEKLY_TTL_HOURS + 1) = <<>>

\* C24: once the calendar year is past a season, the season is historical
\* for every cache read, whenever the serving process was started: the rows
\* kept for it are served by getCachedStandings, getCachedSDSPlus and
\* getCachedMatchups at every age.
C24_PastSeasonIsHistorical ==
  \A k \in Leagues :
     LET season == SeasonOfLeagueKey(k, now)
     IN  ParseInt(season).n < YearOf(now) =>
           /\ \A data \in OrderBy(RowsOfKey(league_standings, k, season), "rank") :
                 (data # <<>> /\ ~hasMissingOwnerNames(data)) =>
                   getCachedStandings("ok", data, season,
                                      CURRENT_SEASON_YEAR, now) # <<>>
           /\ \A data \in OrderBy(SDSRowsOfKey(sds_plus_cache, k, season),
                                 "sds_plus_rank") :
                 data # <<>> =>
                   getCachedSDSPlus("ok", data, season,
                                    CURRENT_SEASON_YEAR, now) # <<>>
           /\ \A week \in Weeks :
                 \A data \in OrderBy(MatchupRowsOfKey(matchups, k, season, week),
                                     "week") :
                    data # <<>> =>
                      getCachedMatchups("ok", data, season,
                                        CURRENT_SEASON_YEAR, now) # <<>>

\* C25, as stated: a getSDSPlusScores request whose weekly-score fetch
\* failed returns success with estimation-mode scores (every consistency
\* index 0), and every request that could not obtain the standings returns
\* success = false and has not called cacheSDSPlus.
C25_StandingsFailureAlwaysFails ==
  \A w \in Workers :
     IsSDSResult(w) =>
       /\ (~res[w].skip /\ res[w].standingsOk /\ res[w].weekly = <<>>) =>
            /\ res[w].success
            /\ \A i \in 1 .. Len(res[w].data) :
                  res[w].data[i].breakdown.consistencyIndex = I(0)
       /\ ~res[w].standingsOk => (~res[w].success /\ ~res[w].cacheCalled)

\* C25, amended: the weekly-score part as stated; a request that could not
\* obtain the standings returns success = false when the SDS+ cache gave it
\* no scores, and success with the cached scores as they are when it did;
\* in neither case has it called cacheSDSPlus.
C25_StandingsFailureFailsOnMiss ==
  \A w \in Workers :
     IsSDSResult(w) =>
       /\ (~res[w].skip /\ res[w].standingsOk /\ res[w].weekly = <<>>) =>
            /\ res[w].success
            /\ res[w].recomputed
            /\ Len(res[w].data) = Len(res[w].standings)
            /\ \A i \in 1 .. Len(res[w].data) :
                  res[w].data[i].breakdown.consistencyIndex = I(0)
       /\ ~res[w].standingsOk =>
            /\ res[w].success <=> res[w].fromCache
            /\ res[w].fromCache => (res[w].skip /\ res[w].data # <<>>)
            /\ ~res[w].cacheCalled
            /\ ~res[w].recomputed

C25_Witness ==
  \E w \in Workers :
     /\ IsSDSResult(w) /\ res[w].skip /\ res[w].consulted
     /\ ~res[w].standingsOk /\ ~res[w].fromCache /\ ~res[w].success
     /\ ~res[w].cacheCalled
     /\ sds_plus_cache = <<>>

\* the same team records, in whatever order
SameTeams(a, b) ==
  /\ Len(a) = Len(b)
  /\ \A i \in 1 .. Len(a) : \E j \in 1 .. Len(b) : a[i] = b[j]
  /\ \A j \in 1 .. Len(b) : \E i \in 1 .. Len(a) : a[i] = b[j]

C28_HitReturnsStoredScores ==
  [][\A w \in Workers :
       (/\ pc[w] = "sds_standings" /\ pc'[w] = "idle"
        /\ loc[w].sds.skip /\ loc[w].sds.cachedScores # <<>>
        /\ IsSDSResult(w)
        /\ res[w].leagueKey = loc[w].sds.leagueKey
        /\ res[w].season = loc[w].sds.season
        /\ res[w].skip /\ res[w].success /\ res[w].recomputed
        /\ res[w].cacheCalled /\ ~res[w].storeFailed) =>
         /\ res'[w].fromCache
         /\ Len(res'[w].data) = Len(res[w].data)
         /\ \A i \in 1 .. Len(res[w].data) :
               \E j \in 1 .. Len(res'[w].data) :
                  /\ res'[w].data[j].team_key = res[w].data[i].team_key
                  /\ res'[w].data[j].score = res[w].data[i].score
                  /\ res'[w].data[j].rank = res[w].data[i].rank
                  /\ res'[w].data[j].finalRank = res[w].data[i].finalRank
                  /\ res'[w].data[j].breakdown = res[w].data[i].breakdown
                  /\ res'[w].data[j].interpretation = res[w].data[i].interpretation]_vars

IsH2HResult(w) == res[w].done /\ res[w].op = "getHeadToHeadRecord"

\* the record of the same games seen from the other manager's side
Mirror(record, opponent) ==
  [opponent |-> opponent, wins |-> record.losses, losses |-> record.wins,
   ties |-> record.ties, total_games |-> record.total_games,
   points_for |-> record.points_against, points_against |-> record.points_for]

\* C22: when getHeadToHeadRecord(a, b) is answered from head_to_head_cache
\* right after getHeadToHeadRecord(b, a) gave a record that the cache holds
\* (it was served from the cache, or computed and stored), the answer is the
\* mirror image of that record: opponent b, wins and losses swapped,
\* points_for and points_against swapped, ties and total_games equal
C22_ReversedLookupIsMirror ==
  [][\A w \in Workers :
       (/\ pc[w] = "h2h_select"
        /\ pc'[w] = "idle"
        /\ IsH2HResult(w)
        /\ res[w].data # <<>>
        /\ res[w].manager1 = loc[w].h2h.manager2
        /\ res[w].manager2 = loc[w].h2h.manager1
        /\ \/ res[w].fromCache
           \/ \E i \in 1 .. Len(head_to_head_cache) :
                 /\ head_to_head_cache[i].cached_at = res[w].at
                 /\ {head_to_head_cache[i].manager1, head_to_head_cache[i].manager2}
                      = {res[w].manager1, res[w].manager2}) =>
         /\ res'[w].fromCache
         /\ res'[w].data = <<Mirror(res[w].data[1], loc[w].h2h.manager2)>>]_vars

\* the (league, week) slots of a computation in which the two managers meet
SlotsPlayed(r) ==
  {k \in 1 .. Len(r.games) :
     \E i \in 1 .. Len(r.games[k]) :
        {r.games[k][i].team1.owner_name, r.games[k][i].team2.owner_name}
          = {r.manager1, r.manager2}}

\* C30: a record getHeadToHeadRecord computes on a cache miss has
\* total_games = wins + losses + ties >= 1 and counts one game for every
\* (league, week) in which the managers meet, never more; when they meet in
\* none, the function returns null and cacheHeadToHead is not called
C30_ComputedRecordCountsSlots ==
  \A w \in Workers :
    (IsH2HResult(w) /\ ~res[w].fromCache) =>
      IF res[w].data # <<>>
      THEN /\ res[w].data[1].total_games
                = res[w].data[1].wins + res[w].data[1].losses + res[w].data[1].ties
           /\ res[w].data[1].total_games >= 1
           /\ res[w].data[1].total_games = Cardinality(SlotsPlayed(res[w]))
           /\ res[w].data[1].opponent = res[w].manager2
           /\ res[w].cacheCalled
      ELSE /\ SlotsPlayed(res[w]) = {}
           /\ ~res[w].cacheCalled

\* a computed record for a week that lists the pairing twice
C30_Witness ==
  \E w \in Workers :
    /\ IsH2HResult(w) /\ ~res[w].fromCache
    /\ res[w].data # <<>>
    /\ \E k \in SlotsPlayed(res[w]) : Len(res[w].games[k]) = 2

IsTOKResult(w) == res[w].done /\ res[w].op = "getValidYahooToken"

\* C26: when getValidYahooToken returns and the stored token had less than
\* five minutes left, it returns the access token the refresh obtained, not
\* the stored one, and the user's yahoo_tokens row holds that access token,
\* its expiry and the refresh token that goes with it; when the stored token
\* had more than five minutes left, it returns the stored access token and
\* the row is what it was
C26_RefreshedTokenIsStored ==
  \A w \in Workers :
    (IsTOKResult(w) /\ ~res[w].thrown) =>
      LET stored == res[w].stored[1]
          row == yahoo_tokens[CHOOSE i \in 1 .. Len(yahoo_tokens) :
                                yahoo_tokens[i].user_id = res[w].userId]
      IN  IF stored.expires_at < DateNow(res[w].at) + 1
          THEN /\ res[w].refreshed # <<>>
               /\ res[w].token = res[w].refreshed[1].access_token
               /\ res[w].token # stored.access_token
               /\ row.access_token = res[w].token
               /\ row.expires_at = res[w].refreshed[1].expires_at
               /\ row.refresh_token = res[w].refreshed[1].refresh_token
          ELSE stored.expires_at > DateNow(res[w].at) + 1 =>
                 /\ res[w].refreshed = <<>>
                 /\ res[w].token = stored.access_token
                 /\ row = stored

====
